---- MODULE Spec2Model ----
(***************************************************************************)
(* Verification model of the temporal-platform batch orchestration:       *)
(*   - DataProcessingOrchestrator.run and BatchProcessingWorkflow.run     *)
(*     (src/temporal_platform/workflows/orchestration.py)                 *)
(*   - process_batch_parallel                                             *)
(*     (src/temporal_platform/activities/data_processing.py)              *)
(*   - the fire-and-forget activities of activities/notifications.py      *)
(* The durable-execution engine is the environment: it runs the units the *)
(* workflow schedules and delivers a result or a failure for each.        *)
(***************************************************************************)
EXTENDS Integers, Sequences, FiniteSets, TLC

(***************************************************************************)
(* Bounds of the explored input space.                                     *)
(***************************************************************************)
MaxBatches == 2
MaxBatchSize == 2
MaxParallel == 2
MaxItems == 3
MaxUnitFaults == 1
MaxSetting == 2
MaxHeartbeats == 2
MaxAttempts == 3        \* largest max_attempts of an event's retry policy
PolicyMaxDelay == 3     \* max_delay (seconds) of an event's retry policy
MaxLatency == 1         \* longest time (seconds) one POST takes
MaxWorkUnits == 4       \* largest small total_work_units
MaxUnitSize == 3        \* largest small work_unit_size
MaxHeartbeatTimeout == 12  \* largest heartbeat timeout (seconds) of an item call
MaxHeartbeatInterval == 2  \* largest small heartbeat_interval_seconds
MaxBatchSeconds == 2    \* longest time (seconds) one internal batch takes
MaxClock == 4           \* time (seconds) after which the clock stands still
MaxFanBatches == 3      \* most batches, and most permits, of one parallel fan-out

(***************************************************************************)
(* Program constants.                                                      *)
(***************************************************************************)
LongRunningMaximumAttempts == 2
MetricsPerRun == 6
DefaultMaxAttempts == 3
DefaultInitialDelay == 1
DefaultMaxDelay == 60
DefaultBackoffMultiplier == 2
WorkUnitCap == 1000

ProcessingMode == {"sequential", "parallel", "batch"}
ItemOutcome == {"completed", "failed"}
NoWebhook == "none"
WebhookUrl == "https://hooks.example/notify"

VARIABLES
  workflow_input,     \* WorkflowInput handed to DataProcessingOrchestrator.run
  pc,                 \* stage of DataProcessingOrchestrator.run
  batch_results,      \* self._batch_results
  local_results,      \* local batch_results of _process_batches_sequential
  seq_i,              \* loop index of _process_batches_sequential (1-based)
  seq_pc,             \* position inside one iteration of that loop
  child,              \* per batch: state of its task / child workflow
  executor,           \* per batch: the activity its child workflow scheduled
  gathered,           \* per batch: result slot of asyncio.gather
  activity_failed,    \* batches whose executor activity failed for good
  semaphore,          \* free permits of asyncio.Semaphore(parallel_batches)
  unit,               \* outcome of each unit started with start_activity
  awaiting,           \* the started unit run is suspended on, or "none"
  metrics_started,    \* final metric updates started by stage 7
  metrics_failed,     \* final metric updates that have failed so far
  dispatched,         \* log of every unit dispatched, in order
  lro,                \* long-running post-processing unit
  validation_result,  \* <<>> or <<result of validate_processing_results>>
  exc,                \* message of the exception caught by run, or "none"
  raised_at,          \* stage at which that exception was raised
  escaped,            \* an exception left run
  output,             \* sequence of WorkflowOutputs returned by run
  par,                \* state of one process_batch_parallel call
  act                 \* state of one call of another activity under study

orchVars == <<workflow_input, pc, batch_results, local_results, seq_i, seq_pc,
              child, executor, gathered, activity_failed, semaphore, unit, awaiting,
              metrics_started, metrics_failed, dispatched, lro, validation_result, exc,
              raised_at, escaped, output, act>>

vars == <<workflow_input, pc, batch_results, local_results, seq_i, seq_pc,
          child, executor, gathered, activity_failed, semaphore, unit, awaiting,
          metrics_started, metrics_failed, dispatched, lro, validation_result, exc,
          raised_at, escaped, output, par, act>>

(***************************************************************************)
(* Helpers.                                                                *)
(***************************************************************************)
RECURSIVE SumSeq(_)
SumSeq(s) == IF s = <<>> THEN 0 ELSE Head(s) + SumSeq(Tail(s))

CountIn(s, v) == Cardinality({i \in DOMAIN s : s[i] = v})

Min(a, b) == IF a < b THEN a ELSE b

NumBatches == Len(workflow_input.batches)
Batches == 1..NumBatches
TotalInputItems ==
  SumSeq([i \in Batches |-> workflow_input.batches[i].batch_size])

(***************************************************************************)
(* Data model (models/workflows.py).                                       *)
(***************************************************************************)
DataBatch == [batch_size : 1..MaxBatchSize, processing_mode : ProcessingMode]

BatchLists == UNION {[1..n -> DataBatch] : n \in 1..MaxBatches}

WorkflowInput ==
  [batches : BatchLists,
   processing_config : [sequential_mode : BOOLEAN,
                        enable_large_dataset_processing : BOOLEAN],
   parallel_batches : 1..MaxParallel,
   notification_webhook : {NoWebhook, WebhookUrl}]

\* BatchProcessingResult as built by a batch executor from its item results.
BatchProcessingResult(id, size, item_results) ==
  [batch_id |-> id,
   total_items |-> size,
   successful_items |-> CountIn(item_results, "completed"),
   failed_items |-> Len(item_results) - CountIn(item_results, "completed"),
   item_results |-> item_results]

\* A degraded result that forgets to count the items as failed.
DegradedResultUncounted(id, size) ==
  [batch_id |-> id,
   total_items |-> size,
   successful_items |-> 0,
   failed_items |-> 0,
   item_results |-> <<>>]

\* The result BatchProcessingWorkflow.run builds in its except branch.
DegradedResult(id, size) ==
  [batch_id |-> id,
   total_items |-> size,
   successful_items |-> 0,
   failed_items |-> size,
   item_results |-> <<>>]

(***************************************************************************)
(* validate_processing_results (activities/data_processing.py).            *)
(***************************************************************************)
\* A validator that checks the item count only.
ValidationErrorsCountOnly(results) ==
  LET errs(r) ==
        IF r.total_items # Len(r.item_results)
          THEN <<<<r.batch_id, "item count mismatch">>>> ELSE <<>>
      RECURSIVE Collect(_)
      Collect(k) == IF k > Len(results) THEN <<>>
                    ELSE errs(results[k]) \o Collect(k + 1)
  IN Collect(1)

\* A validator that checks the successful count only.
ValidationErrorsSuccessfulOnly(results) ==
  LET errs(r) ==
        IF CountIn(r.item_results, "completed") # r.successful_items
          THEN <<<<r.batch_id, "successful count mismatch">>>> ELSE <<>>
      RECURSIVE Collect(_)
      Collect(k) == IF k > Len(results) THEN <<>>
                    ELSE errs(results[k]) \o Collect(k + 1)
  IN Collect(1)

ValidationErrors(results) ==
  LET errs(r) ==
        (IF r.total_items # Len(r.item_results)
           THEN <<<<r.batch_id, "item count mismatch">>>> ELSE <<>>)
        \o
        (IF CountIn(r.item_results, "completed") # r.successful_items
           THEN <<<<r.batch_id, "successful count mismatch">>>> ELSE <<>>)
      RECURSIVE Collect(_)
      Collect(k) == IF k > Len(results) THEN <<>>
                    ELSE errs(results[k]) \o Collect(k + 1)
  IN Collect(1)

validate_processing_results(results) ==
  LET total_items == SumSeq([k \in DOMAIN results |-> results[k].total_items])
      total_successful ==
        SumSeq([k \in DOMAIN results |-> results[k].successful_items])
      total_failed == SumSeq([k \in DOMAIN results |-> results[k].failed_items])
      errors == ValidationErrors(results)
  IN [validation_successful |-> Len(errors) = 0,
      validation_errors |-> errors,
      statistics |->
        [total_batches |-> Len(results),
         total_items |-> total_items,
         successful_items |-> total_successful,
         failed_items |-> total_failed,
         \* success_rate_percentage as the exact ratio <<num, den>>
         success_rate_percentage |->
           IF total_items > 0 THEN <<total_successful * 100, total_items>>
                              ELSE <<0, 1>>]]

(***************************************************************************)
(* Fault handling of the units the orchestrator schedules: what the        *)
(* engine delivers for a unit whose body hit an internal fault.            *)
(***************************************************************************)
\* log_audit_event: the except branch re-raises ActivityExecutionError.
log_audit_event_on_fault == "raised:ActivityExecutionError"

\* update_metrics_dashboard: the except branch returns an error result.
update_metrics_dashboard_on_fault == "returned:failed"

\* monitor_system_resources: the except branch raises ActivityExecutionError.
monitor_system_resources_on_fault == "raised:ActivityExecutionError"

\* send_webhook_notification never raises: it returns a value whose
\* delivery_status is success, or failed / error ("returned:failed" here).
WebhookOutcomes == {"returned:success", "returned:failed"}

IsRaised(outcome) ==
  outcome \in {"raised:ActivityExecutionError", "raised:ActivityError"}

(***************************************************************************)
(* DataProcessingOrchestrator.run: exception handling.                     *)
(***************************************************************************)
Units == {"audit", "monitor", "progress", "notify_completed", "notify_failed"}

\* A try block that closes before the post-processing call.
InTryBeforePostProcessing(stage) ==
  stage \in {"Started", "AuditLogged", "MonitoringStarted", "BatchesExecuting",
             "Validating", "Validated"}

\* Stages covered by the try block of run (everything up to its return).
InTry(stage) ==
  stage \in {"Started", "AuditLogged", "MonitoringStarted", "BatchesExecuting",
             "Validating", "Validated", "PostProcessing", "PostProcessed",
             "NotifyingCompletion", "MetricsUpdated", "MonitoringReconciled"}

Terminal == {"Completed", "Failed", "Escaped"}

\* An exception with message msg surfaces in run at the current stage.
Raise(msg) ==
  /\ raised_at' = pc
  /\ IF InTry(pc)
       THEN /\ pc' = "Failing"
            /\ exc' = msg
            /\ escaped' = escaped
       ELSE /\ pc' = "Escaped"
            /\ exc' = exc
            /\ escaped' = TRUE

Goto(stage) ==
  /\ pc' = stage
  /\ UNCHANGED <<exc, raised_at, escaped>>

\* Which start_activity handles run awaits.
AuditHandleAwaited == TRUE
AuditAwaited == FALSE
NotificationHandleAwaited == TRUE
NotificationAwaited == FALSE
SeqMetricAwaited == TRUE
\* An await of monitoring_task that lets its failure reach run's handler.
MonitoringFailurePropagates == FALSE
\* The await of monitoring_task sits in its own try/except.
MonitoringFailureCaught == TRUE

Dispatch(u, entry) ==
  /\ unit' = [unit EXCEPT ![u] = "scheduled"]
  /\ dispatched' = Append(dispatched, entry)

(***************************************************************************)
(* WorkflowOutput construction.                                            *)
(***************************************************************************)
\* An output whose status follows the validation report and whose item
\* counts are recounted from the item results.
create_workflow_output_from_report(vr) ==
  [status |-> IF vr.validation_successful THEN "completed" ELSE "failed",
   total_batches |-> Len(batch_results),
   successful_batches |->
     Cardinality({k \in DOMAIN batch_results :
        batch_results[k].successful_items = batch_results[k].total_items}),
   failed_batches |->
     Cardinality({k \in DOMAIN batch_results :
        batch_results[k].successful_items < batch_results[k].total_items}),
   total_items |->
     SumSeq([k \in DOMAIN batch_results |-> Len(batch_results[k].item_results)]),
   successful_items |-> vr.statistics.successful_items,
   failed_items |-> vr.statistics.failed_items,
   batch_results |-> batch_results,
   summary_statistics |-> <<vr.statistics>>,
   error_summary |-> "none"]

create_workflow_output(vr) ==
  [status |-> "completed",
   total_batches |-> Len(batch_results),
   successful_batches |->
     Cardinality({k \in DOMAIN batch_results :
        batch_results[k].successful_items = batch_results[k].total_items}),
   failed_batches |->
     Cardinality({k \in DOMAIN batch_results :
        batch_results[k].successful_items < batch_results[k].total_items}),
   total_items |-> vr.statistics.total_items,
   successful_items |-> vr.statistics.successful_items,
   failed_items |-> vr.statistics.failed_items,
   batch_results |-> batch_results,
   summary_statistics |-> <<vr.statistics>>,
   error_summary |-> "none"]

\* A failed output that counts the items of the batches already finished.
create_failed_output_counting_finished(error_message) ==
  [status |-> "failed",
   total_batches |-> NumBatches,
   successful_batches |-> 0,
   failed_batches |-> NumBatches,
   total_items |-> TotalInputItems,
   successful_items |->
     SumSeq([k \in DOMAIN local_results |-> local_results[k].successful_items]),
   failed_items |-> TotalInputItems,
   batch_results |-> batch_results,
   summary_statistics |-> <<>>,
   error_summary |-> "Workflow failed"]

create_failed_workflow_output(error_message) ==
  [status |-> "failed",
   total_batches |-> NumBatches,
   successful_batches |-> 0,
   failed_batches |-> NumBatches,
   total_items |-> TotalInputItems,
   successful_items |-> 0,
   failed_items |-> TotalInputItems,
   batch_results |-> batch_results,
   summary_statistics |-> <<>>,
   error_summary |-> error_message]

(***************************************************************************)
(* process_batch_parallel keeps its item coroutines in `tasks` and its      *)
(* heartbeat_sender calls task.done() on them.                             *)
(***************************************************************************)
\* What the list `tasks` holds: coroutine objects, never wrapped in a Task.
TaskListKind == "coroutine"

\* Only asyncio Tasks and Futures have a done() method.
HasDone(kind) == kind \in {"task", "future"}

\* An executor chosen by the orchestrator's sequential_mode.
ExecutorFollowingOrchestrator(mode) ==
  IF workflow_input.processing_config.sequential_mode
    THEN "process_batch_sequential"
    ELSE "process_batch_parallel"

\* Which batch executor BatchProcessingWorkflow.run schedules.
ExecutorFor(mode) ==
  IF mode = "sequential" THEN "process_batch_sequential"
                         ELSE "process_batch_parallel"

\* An attempt of the executor can hand back a BatchProcessingResult.
ExecutorCanReturn(mode) ==
  \/ ExecutorFor(mode) = "process_batch_sequential"
  \/ HasDone(TaskListKind)

(***************************************************************************)
(* Orchestrator stages 1-3.                                                *)
(***************************************************************************)
inputVars == <<workflow_input>>
batchVars == <<batch_results, local_results, seq_i, seq_pc, child, executor, gathered,
               activity_failed, semaphore>>
metricVars == <<metrics_started, metrics_failed>>
lateVars == <<lro, validation_result, output>>

SequentialMode == workflow_input.processing_config.sequential_mode
Running == pc \notin Terminal

\* Stage 1: _log_workflow_start.
LogWorkflowStart ==
  /\ pc = "Started" /\ awaiting = "none"
  /\ Dispatch("audit", [activity |-> "log_audit_event",
                        arg |-> "workflow_started"])
  /\ awaiting' = IF AuditAwaited THEN "audit" ELSE "none"
  /\ Goto("AuditLogged")
  /\ UNCHANGED <<inputVars, batchVars, metricVars, lateVars, par, act>>

\* Stage 2: start monitor_system_resources, keep the handle.
StartMonitoring ==
  /\ pc = "AuditLogged" /\ awaiting = "none"
  /\ Dispatch("monitor", [activity |-> "monitor_system_resources",
                          arg |-> "none"])
  /\ Goto("MonitoringStarted")
  /\ UNCHANGED <<inputVars, batchVars, awaiting, metricVars, lateVars, par, act>>

\* Stage 3, entry: choose _process_batches_sequential or _parallel.
BeginBatches ==
  /\ pc = "MonitoringStarted" /\ awaiting = "none"
  /\ IF SequentialMode
       THEN /\ seq_pc' = "loop"
            /\ seq_i' = 1
            /\ local_results' = <<>>
            /\ UNCHANGED <<child, semaphore>>
       ELSE /\ semaphore' = workflow_input.parallel_batches
            /\ child' = [i \in Batches |-> "pending"]
            /\ UNCHANGED <<seq_pc, seq_i, local_results>>
  /\ Goto("BatchesExecuting")
  /\ UNCHANGED <<inputVars, batch_results, executor, gathered, activity_failed, unit,
                 awaiting, dispatched, metricVars, lateVars, par, act>>

(***************************************************************************)
(* _process_batches_sequential.                                            *)
(***************************************************************************)
\* A loop that starts the next child without awaiting the current one.
SeqMayStartEager(i) ==
  /\ seq_pc \in {"loop", "child"}
  /\ \A j \in Batches : j < i => child[j] # "idle"

\* The for loop starts batch i only when it is the current iteration.
SeqMayStart(i) == seq_pc = "loop" /\ i = seq_i

SeqStartChild(i) ==
  /\ pc = "BatchesExecuting" /\ SequentialMode /\ awaiting = "none"
  /\ SeqMayStart(i)
  /\ child[i] = "idle"
  /\ child' = [child EXCEPT ![i] = "running"]
  /\ executor' = [executor EXCEPT
                    ![i] = ExecutorFor(workflow_input.batches[i].processing_mode)]
  /\ seq_pc' = "child"
  /\ Goto(pc)
  /\ UNCHANGED <<inputVars, batch_results, local_results, seq_i, gathered, activity_failed,
                 semaphore, unit, awaiting, dispatched, metricVars, lateVars,
                 par, act>>

\* The loop has run off the end: return batch_results; stage 4 starts.
SeqFinish ==
  /\ pc = "BatchesExecuting" /\ SequentialMode /\ awaiting = "none"
  /\ seq_pc = "loop" /\ seq_i = NumBatches + 1
  /\ batch_results' = local_results
  /\ seq_pc' = "done"
  /\ Goto("Validating")
  /\ UNCHANGED <<inputVars, local_results, seq_i, child, executor, gathered, activity_failed, semaphore,
                 unit, awaiting, dispatched, metricVars, lateVars, par, act>>

(***************************************************************************)
(* _process_batches_parallel.                                              *)
(***************************************************************************)
\* Tasks that enter without acquiring the semaphore.
SemaphoreIgnored == TRUE

\* `async with semaphore` lets a task in only while a permit is free.
SemaphoreAvailable == semaphore > 0

\* asyncio.Semaphore wakes waiters first-in first-out, and gather creates
\* the tasks in batch order.
TaskAcquire(i) ==
  /\ Running /\ ~SequentialMode
  /\ child[i] = "pending"
  /\ \A j \in Batches : j < i => child[j] # "pending"
  /\ SemaphoreAvailable
  /\ semaphore' = semaphore - 1
  /\ child' = [child EXCEPT ![i] = "running"]
  /\ executor' = [executor EXCEPT
                    ![i] = ExecutorFor(workflow_input.batches[i].processing_mode)]
  /\ Goto(pc)
  /\ UNCHANGED <<inputVars, batch_results, local_results, seq_i, seq_pc,
                 gathered, activity_failed, unit, awaiting, dispatched, metricVars, lateVars,
                 par, act>>

\* A fan-out that returns as soon as one task has a result.
ParFinishOnFirstResult ==
  /\ pc = "BatchesExecuting" /\ ~SequentialMode
  /\ \E i \in Batches :
       /\ child[i] = "done"
       /\ batch_results' = <<gathered[i][1]>>
  /\ Goto("Validating")
  /\ UNCHANGED <<inputVars, local_results, seq_i, seq_pc, child, executor, gathered, activity_failed,
                 semaphore, unit, awaiting, dispatched, metricVars, lateVars,
                 par, act>>

\* asyncio.gather has every result: return list(batch_results).
ParFinish ==
  /\ pc = "BatchesExecuting" /\ ~SequentialMode
  /\ \A i \in Batches : child[i] = "done"
  /\ batch_results' = [i \in Batches |-> gathered[i][1]]
  /\ Goto("Validating")
  /\ UNCHANGED <<inputVars, local_results, seq_i, seq_pc, child, executor, gathered, activity_failed,
                 semaphore, unit, awaiting, dispatched, metricVars, lateVars,
                 par, act>>

(***************************************************************************)
(* BatchProcessingWorkflow.run, as seen from the orchestrator: the engine  *)
(* runs the child, retries its executor activity, and delivers the child's *)
(* result or failure to the awaiting task.                                 *)
(***************************************************************************)
\* A child without the try / except around its activity call.
ChildRethrows == FALSE

\* The child wraps its activity call in try / except Exception.
ChildCatches == TRUE

ProgressEntry(i) ==
  [activity |-> "update_metrics_dashboard",
   arg |-> <<"batch_processing_progress", i, NumBatches>>]

\* execute_child_workflow returns r for batch i.
DeliverResult(i, r) ==
  /\ child' = [child EXCEPT ![i] = "done"]
  /\ IF SequentialMode
       THEN /\ local_results' = Append(local_results, r)
            /\ Dispatch("progress", ProgressEntry(i))
            /\ awaiting' = IF SeqMetricAwaited THEN "progress" ELSE "none"
            /\ seq_pc' = "metric"
            /\ UNCHANGED <<gathered, semaphore>>
       ELSE /\ gathered' = [gathered EXCEPT ![i] = <<r>>]
            /\ semaphore' = semaphore + 1
            /\ UNCHANGED <<local_results, seq_pc, unit, dispatched, awaiting>>
  /\ Goto(pc)

\* execute_child_workflow raises ChildWorkflowError for batch i.
DeliverFailure(i) ==
  /\ child' = [child EXCEPT ![i] = "failed"]
  /\ IF SequentialMode
       THEN /\ seq_pc' = "failed"
            /\ UNCHANGED semaphore
            /\ Raise("ChildWorkflowError")
       ELSE /\ semaphore' = semaphore + 1
            /\ UNCHANGED seq_pc
            /\ IF pc = "BatchesExecuting" THEN Raise("ChildWorkflowError")
                                          ELSE Goto(pc)
  /\ UNCHANGED <<local_results, gathered, unit, dispatched, awaiting>>

\* The executor activity fails for good: each of the attempts its retry
\* policy allows raised or timed out, and execute_activity raises in the child.
ChildActivityFails(i) ==
  /\ pc = "BatchesExecuting"
  /\ child[i] = "running"
  /\ activity_failed' = activity_failed \cup {i}
  /\ IF ChildCatches
       THEN DeliverResult(i,
              DegradedResult(i, workflow_input.batches[i].batch_size))
       ELSE DeliverFailure(i)
  /\ UNCHANGED <<inputVars, batch_results, seq_i, executor, metricVars, lateVars, par, act>>

\* The executor activity returns; outcomes[k] is the status of item k.
ChildActivityReturns(i, outcomes) ==
  /\ pc = "BatchesExecuting"
  /\ child[i] = "running"
  /\ ExecutorCanReturn(workflow_input.batches[i].processing_mode)
  /\ DeliverResult(i,
       BatchProcessingResult(i, workflow_input.batches[i].batch_size, outcomes))
  /\ UNCHANGED <<inputVars, batch_results, seq_i, executor, activity_failed, metricVars,
                 lateVars, par, act>>

\* The child workflow itself ends without a result (execution_timeout).
ChildWorkflowFails(i) ==
  /\ pc = "BatchesExecuting"
  /\ child[i] = "running"
  /\ DeliverFailure(i)
  /\ UNCHANGED <<inputVars, batch_results, seq_i, executor, activity_failed, metricVars,
                 lateVars, par, act>>

(***************************************************************************)
(* Units started with start_activity: resolution by the engine, and the    *)
(* resumption of run when it awaits one of them.                           *)
(***************************************************************************)
Outcomes(u) ==
  CASE u = "audit" -> {"returned:success", log_audit_event_on_fault}
    [] u = "monitor" -> {"returned:success", monitor_system_resources_on_fault}
    [] u = "progress" -> {"returned:success", update_metrics_dashboard_on_fault,
                          "raised:ActivityError"}
    [] OTHER -> WebhookOutcomes \cup {"raised:ActivityError"}

ErrorOf(u) ==
  CASE u = "audit" -> "ActivityError:log_audit_event"
    [] u = "monitor" -> "ActivityError:monitor_system_resources"
    [] u = "progress" -> "ActivityError:update_metrics_dashboard"
    [] OTHER -> "ActivityError:send_webhook_notification"

\* Units whose handle run keeps and awaits: their outcome reaches the
\* workflow when the await resumes.
AwaitedUnits ==
  {"monitor"} \cup (IF SeqMetricAwaited THEN {"progress"} ELSE {})
    \cup (IF AuditAwaited THEN {"audit"} ELSE {})
    \cup (IF NotificationAwaited THEN {"notify_completed"} ELSE {})

IsFailure(o) == o \notin {"none", "scheduled", "returned:success"}

\* Fire-and-forget units that have failed so far.
UnitFaults ==
  Cardinality({u \in Units \ AwaitedUnits : IsFailure(unit[u])})
    + metrics_failed

\* A fire-and-forget unit u fails with outcome o. Its handle was dropped,
\* so its success is no event of the workflow.
UnitFails(u, o) ==
  /\ Running
  /\ unit[u] = "scheduled"
  /\ u \notin AwaitedUnits
  /\ o \in Outcomes(u) /\ IsFailure(o)
  /\ UnitFaults < MaxUnitFaults
  /\ unit' = [unit EXCEPT ![u] = o]
  /\ Goto(pc)
  /\ UNCHANGED <<inputVars, batchVars, awaiting, dispatched, metricVars,
                 lateVars, par, act>>

\* The unit run is suspended on resolves with outcome o and run resumes.
AwaitResume(o) ==
  /\ Running
  /\ awaiting # "none"
  /\ unit[awaiting] = "scheduled"
  /\ o \in Outcomes(awaiting)
  /\ unit' = [unit EXCEPT ![awaiting] = o]
  /\ awaiting' = "none"
  /\ IF IsRaised(o) THEN Raise(ErrorOf(awaiting)) ELSE Goto(pc)
  /\ UNCHANGED <<inputVars, batchVars, dispatched, metricVars, lateVars, par, act>>

\* Next iteration of the sequential loop, after the progress metric.
SeqNext ==
  /\ pc = "BatchesExecuting" /\ SequentialMode /\ awaiting = "none"
  /\ seq_pc = "metric"
  /\ seq_i' = seq_i + 1
  /\ seq_pc' = "loop"
  /\ Goto(pc)
  /\ UNCHANGED <<inputVars, batch_results, local_results, child, executor, gathered, activity_failed,
                 semaphore, unit, awaiting, dispatched, metricVars, lateVars,
                 par, act>>

\* One of the started final metric updates fails. Nothing in run holds
\* its handle, so a success is no event of the workflow.
MetricFails ==
  /\ Running
  /\ metrics_failed < metrics_started
  /\ UnitFaults < MaxUnitFaults
  /\ metrics_failed' = metrics_failed + 1
  /\ Goto(pc)
  /\ UNCHANGED <<inputVars, batchVars, unit, awaiting, dispatched,
                 metrics_started, lateVars, par, act>>

(***************************************************************************)
(* Orchestrator stages 4-7 and the top-level except branch.                *)
(***************************************************************************)
\* Stage 4: validate_processing_results returns.
ValidationReturns ==
  /\ pc = "Validating" /\ awaiting = "none"
  /\ validation_result' = <<validate_processing_results(batch_results)>>
  /\ Goto("Validated")
  /\ UNCHANGED <<inputVars, batchVars, unit, awaiting, dispatched, metricVars,
                 lro, output, par, act>>

\* Stage 4: the validation activity fails for good (attempts exhausted).
ValidationFails ==
  /\ pc = "Validating" /\ awaiting = "none"
  /\ Raise("ActivityError:validate_processing_results")
  /\ UNCHANGED <<inputVars, batchVars, unit, awaiting, dispatched, metricVars,
                 lateVars, par, act>>

\* Stage 5: _execute_long_running_processing, when the configuration asks.
StartPostProcessing ==
  /\ pc = "Validated" /\ awaiting = "none"
  /\ IF workflow_input.processing_config.enable_large_dataset_processing
       THEN /\ lro' = [st |-> "running", attempt |-> 1,
                       total_work_units |-> TotalInputItems]
            /\ Goto("PostProcessing")
       ELSE /\ lro' = lro
            /\ Goto("PostProcessed")
  /\ UNCHANGED <<inputVars, batchVars, unit, awaiting, dispatched, metricVars,
                 validation_result, output, par, act>>

\* process_large_dataset returns an output value; run discards it.
LongRunningReturns(status) ==
  /\ pc = "PostProcessing"
  /\ lro.st = "running"
  /\ lro' = [lro EXCEPT !.st = status, !.attempt = 0]
  /\ Goto("PostProcessed")
  /\ UNCHANGED <<inputVars, batchVars, unit, awaiting, dispatched, metricVars,
                 validation_result, output, par, act>>

\* One attempt of process_large_dataset is lost (heartbeat or
\* schedule-to-close timeout); after the last one execute_activity raises.
LongRunningAttemptFails ==
  /\ pc = "PostProcessing"
  /\ lro.st = "running"
  /\ IF lro.attempt < LongRunningMaximumAttempts
       THEN /\ lro' = [lro EXCEPT !.attempt = @ + 1]
            /\ Goto(pc)
       ELSE /\ lro' = [lro EXCEPT !.st = "raised:ActivityError", !.attempt = 0]
            /\ Raise("ActivityError:process_large_dataset")
  /\ UNCHANGED <<inputVars, batchVars, unit, awaiting, dispatched, metricVars,
                 validation_result, output, par, act>>

HasWebhook == workflow_input.notification_webhook # NoWebhook

\* Stage 6: _send_completion_notifications.
SendCompletionNotifications ==
  /\ pc = "PostProcessed" /\ awaiting = "none"
  /\ IF HasWebhook
       THEN /\ Dispatch("notify_completed",
                 [activity |-> "send_webhook_notification",
                  arg |-> "workflow_completed"])
            /\ awaiting' = IF NotificationAwaited THEN "notify_completed"
                                                  ELSE "none"
       ELSE UNCHANGED <<unit, dispatched, awaiting>>
  /\ Goto("NotifyingCompletion")
  /\ UNCHANGED <<inputVars, batchVars, metricVars, lateVars, par, act>>

\* Stage 7: _update_processing_metrics starts six metric updates.
UpdateProcessingMetrics ==
  /\ pc = "NotifyingCompletion" /\ awaiting = "none"
  /\ metrics_started' = metrics_started + MetricsPerRun
  /\ dispatched' = dispatched \o
       [k \in 1..MetricsPerRun |->
          [activity |-> "update_metrics_dashboard", arg |-> k]]
  /\ Goto("MetricsUpdated")
  /\ UNCHANGED <<inputVars, batchVars, unit, awaiting, metrics_failed,
                 lateVars, par, act>>

\* `await monitoring_task` inside its own try / except: the unit resolves
\* with outcome o.
CollectMonitoring(o) ==
  /\ pc = "MetricsUpdated" /\ awaiting = "none"
  /\ unit["monitor"] = "scheduled"
  /\ o \in Outcomes("monitor")
  /\ unit' = [unit EXCEPT !["monitor"] = o]
  /\ IF IsRaised(o) /\ ~MonitoringFailureCaught
       THEN Raise(ErrorOf("monitor"))
       ELSE Goto("MonitoringReconciled")
  /\ UNCHANGED <<inputVars, batchVars, awaiting, dispatched, metricVars,
                 lateVars, par, act>>

\* return self._create_workflow_output(...)
CreateWorkflowOutput ==
  /\ pc = "MonitoringReconciled" /\ awaiting = "none"
  /\ output' = Append(output, create_workflow_output(validation_result[1]))
  /\ Goto("Completed")
  /\ UNCHANGED <<inputVars, batchVars, unit, awaiting, dispatched, metricVars,
                 lro, validation_result, par, act>>

\* except Exception: _send_failure_notification.
SendFailureNotification ==
  /\ pc = "Failing"
  /\ IF HasWebhook
       THEN Dispatch("notify_failed",
              [activity |-> "send_webhook_notification",
               arg |-> <<"workflow_failed", Len(batch_results)>>])
       ELSE UNCHANGED <<unit, dispatched>>
  /\ Goto("FailureNotified")
  /\ UNCHANGED <<inputVars, batchVars, awaiting, metricVars, lateVars, par, act>>

\* except Exception: return self._create_failed_workflow_output(...)
CreateFailedWorkflowOutput ==
  /\ pc = "FailureNotified"
  /\ output' = Append(output, create_failed_workflow_output(exc))
  /\ Goto("Failed")
  /\ UNCHANGED <<inputVars, batchVars, unit, awaiting, dispatched, metricVars,
                 lro, validation_result, par, act>>

(***************************************************************************)
(* Specification of one run of the orchestrator.                           *)
(***************************************************************************)
ParIdle == [pc |-> "idle"]
ActIdle == [pc |-> "idle"]

Init ==
  /\ workflow_input \in WorkflowInput
  /\ pc = "Started"
  /\ batch_results = <<>>
  /\ local_results = <<>>
  /\ seq_i = 1
  /\ seq_pc = "idle"
  /\ child = [i \in Batches |-> "idle"]
  /\ executor = [i \in Batches |-> "none"]
  /\ gathered = [i \in Batches |-> <<>>]
  /\ activity_failed = {}
  /\ semaphore = 0
  /\ unit = [u \in Units |-> "none"]
  /\ awaiting = "none"
  /\ metrics_started = 0
  /\ metrics_failed = 0
  /\ dispatched = <<>>
  /\ lro = [st |-> "none", attempt |-> 0, total_work_units |-> 0]
  /\ validation_result = <<>>
  /\ exc = "none"
  /\ raised_at = "none"
  /\ escaped = FALSE
  /\ output = <<>>
  /\ par = ParIdle
  /\ act = ActIdle

Next ==
  \/ LogWorkflowStart
  \/ StartMonitoring
  \/ BeginBatches
  \/ \E i \in Batches : SeqStartChild(i)
  \/ SeqNext
  \/ SeqFinish
  \/ \E i \in Batches : TaskAcquire(i)
  \/ ParFinish
  \/ \E i \in Batches : ChildActivityFails(i)
  \/ \E i \in Batches :
       \E outcomes \in [1..workflow_input.batches[i].batch_size -> ItemOutcome] :
         ChildActivityReturns(i, outcomes)
  \/ \E i \in Batches : ChildWorkflowFails(i)
  \/ \E u \in Units : \E o \in Outcomes(u) : UnitFails(u, o)
  \/ \E o \in Outcomes(awaiting) : AwaitResume(o)
  \/ MetricFails
  \/ ValidationReturns
  \/ ValidationFails
  \/ StartPostProcessing
  \/ \E status \in {"returned:completed", "returned:failed"} :
       LongRunningReturns(status)
  \/ LongRunningAttemptFails
  \/ SendCompletionNotifications
  \/ UpdateProcessingMetrics
  \/ \E o \in Outcomes("monitor") : CollectMonitoring(o)
  \/ CreateWorkflowOutput
  \/ SendFailureNotification
  \/ CreateFailedWorkflowOutput

Spec == Init /\ [][Next]_vars

(***************************************************************************)
(* process_batch_parallel (activities/data_processing.py): one call, on a  *)
(* batch of par.n items of which the items in par.faults make              *)
(* process_single_item raise.  Item k of the batch has id k.               *)
(***************************************************************************)
ParInputs ==
  {[n |-> n, faults |-> F, setting |-> c] :
     n \in 1..MaxItems, F \in SUBSET (1..MaxItems), c \in 1..MaxSetting}

\* A semaphore sized by the batch alone.
BatchSizeOnly(setting, batch_size) == batch_size

\* max_concurrent = min(settings.workflow.max_concurrent_activities, batch_size)
MaxConcurrent(setting, batch_size) == Min(setting, batch_size)

\* process_with_semaphore: the status of the ProcessingResult it returns.
\* A fault of process_single_item is caught and becomes a failed result.
ProcessWithSemaphoreResult(k, faults) ==
  IF k \in faults THEN "failed" ELSE "completed"

ParItems == 1..par.n

ParInit ==
  /\ \E in \in ParInputs :
       /\ in.faults \subseteq 1..in.n
       /\ par = [pc |-> "start", n |-> in.n, faults |-> in.faults,
                 setting |-> in.setting, sem |-> 0,
                 task |-> [k \in 1..in.n |-> "coroutine"],
                 result |-> [k \in 1..in.n |-> "none"],
                 result_item |-> [k \in 1..in.n |-> 0],
                 finish_order |-> <<>>, processed_ids |-> <<>>,
                 hb |-> "none", heartbeats |-> 0,
                 processed_results |-> <<>>,
                 exception |-> "none", batch_result |-> <<>>]
  /\ workflow_input = [batches |-> <<>>,
                       processing_config |->
                         [sequential_mode |-> FALSE,
                          enable_large_dataset_processing |-> FALSE],
                       parallel_batches |-> 1,
                       notification_webhook |-> NoWebhook]
  /\ pc = "NotStarted"
  /\ batch_results = <<>>
  /\ local_results = <<>>
  /\ seq_i = 1
  /\ seq_pc = "idle"
  /\ child = <<>>
  /\ executor = <<>>
  /\ gathered = <<>>
  /\ activity_failed = {}
  /\ semaphore = 0
  /\ unit = [u \in Units |-> "none"]
  /\ awaiting = "none"
  /\ metrics_started = 0
  /\ metrics_failed = 0
  /\ dispatched = <<>>
  /\ lro = [st |-> "none", attempt |-> 0, total_work_units |-> 0]
  /\ validation_result = <<>>
  /\ exc = "none"
  /\ raised_at = "none"
  /\ escaped = FALSE
  /\ output = <<>>
  /\ act = ActIdle

\* Lines 238-280: build the semaphore and the coroutine list, create the
\* heartbeat task, and suspend in asyncio.gather, which wraps every
\* coroutine in a task of its own (the list `tasks` still holds coroutines).
ParStart ==
  /\ par.pc = "start"
  /\ par' = [par EXCEPT !.pc = "gathering",
                        !.sem = MaxConcurrent(par.setting, par.n),
                        !.task = [k \in ParItems |-> "waiting"],
                        !.hb = "ready"]
  /\ UNCHANGED orchVars

\* One run of heartbeat_sender up to its next suspension: evaluate
\* `all(task.done() for task in tasks)`, then heartbeat and sleep.
HeartbeatSenderStep ==
  /\ par.pc \in {"gathering", "gathered"}
  /\ par.hb \in {"ready", "sleeping"}
  /\ IF ~HasDone(TaskListKind)
       THEN \* 'coroutine' object has no attribute 'done'
            par' = [par EXCEPT !.hb = "raised:AttributeError"]
       ELSE IF \A k \in ParItems : par.task[k] = "done"
              THEN par' = [par EXCEPT !.hb = "finished"]
              ELSE par' = [par EXCEPT
                             !.hb = "sleeping",
                             !.heartbeats = Min(@ + 1, MaxHeartbeats)]
  /\ UNCHANGED orchVars

\* The heartbeat task was created first, so the event loop runs it before
\* any item task.
HeartbeatTaskRan == par.hb \notin {"none", "ready"}

\* Item task k enters `async with semaphore` and calls process_single_item.
ItemAcquire(k) ==
  /\ par.pc = "gathering"
  /\ HeartbeatTaskRan
  /\ par.task[k] = "waiting"
  /\ par.sem > 0
  /\ par' = [par EXCEPT !.sem = @ - 1, !.task[k] = "running"]
  /\ UNCHANGED orchVars

\* Item task k finishes: result or caught fault, semaphore released.
ItemFinish(k) ==
  /\ par.pc = "gathering"
  /\ par.task[k] = "running"
  /\ par' = [par EXCEPT
               !.sem = @ + 1,
               !.task[k] = "done",
               !.result[k] = ProcessWithSemaphoreResult(k, par.faults),
               !.result_item[k] = k,
               !.finish_order = Append(@, k)]
  /\ UNCHANGED orchVars

\* A collection that takes the results as the tasks complete.
CompletionOrder(n, finish_order) == finish_order

\* asyncio.gather returns the results in the order of the awaitables it
\* was given, whatever order they completed in.
GatherOrder(n, finish_order) == [k \in 1..n |-> k]

\* gather returns the item results in input order; lines 283-300.
ParGathered ==
  /\ par.pc = "gathering"
  /\ \A k \in ParItems : par.task[k] = "done"
  /\ LET order == GatherOrder(par.n, par.finish_order)
     IN par' = [par EXCEPT
                  !.pc = "gathered",
                  !.processed_results = [k \in ParItems |-> par.result[order[k]]],
                  !.processed_ids = [k \in ParItems |-> par.result_item[order[k]]]]
  /\ UNCHANGED orchVars

\* finally: heartbeat_task.cancel(); await heartbeat_task, swallowing only
\* CancelledError.  A task that already ended with an exception re-raises it.
ParFinally ==
  /\ par.pc = "gathered"
  /\ IF par.hb = "raised:AttributeError"
       THEN par' = [par EXCEPT !.pc = "raised",
                               !.exception = "AttributeError"]
       ELSE \* no suspension point is left: count, build the result, return
            par' = [par EXCEPT
                      !.pc = "returned",
                      !.hb = IF par.hb = "finished" THEN "finished"
                                                    ELSE "cancelled",
                      !.batch_result =
                        <<BatchProcessingResult(1, par.n,
                                                par.processed_results)>>]
  /\ UNCHANGED orchVars

ParNext ==
  \/ ParStart
  \/ HeartbeatSenderStep
  \/ \E k \in ParItems : ItemAcquire(k)
  \/ \E k \in ParItems : ItemFinish(k)
  \/ ParGathered
  \/ ParFinally

SpecPar == ParInit /\ [][ParNext]_vars

(***************************************************************************)
(* Calls of single activities, outside any orchestrator run: the          *)
(* orchestrator and the parallel executor stay idle.                       *)
(***************************************************************************)
idleVars == <<workflow_input, pc, batch_results, local_results, seq_i, seq_pc,
              child, executor, gathered, activity_failed, semaphore, unit, awaiting,
              metrics_started, metrics_failed, dispatched, lro,
              validation_result, exc, raised_at, escaped, output, par>>

RunIdle ==
  /\ workflow_input = [batches |-> <<>>,
                       processing_config |->
                         [sequential_mode |-> FALSE,
                          enable_large_dataset_processing |-> FALSE],
                       parallel_batches |-> 1,
                       notification_webhook |-> NoWebhook]
  /\ pc = "NotStarted"
  /\ batch_results = <<>>
  /\ local_results = <<>>
  /\ seq_i = 1
  /\ seq_pc = "idle"
  /\ child = <<>>
  /\ executor = <<>>
  /\ gathered = <<>>
  /\ activity_failed = {}
  /\ semaphore = 0
  /\ unit = [u \in Units |-> "none"]
  /\ awaiting = "none"
  /\ metrics_started = 0
  /\ metrics_failed = 0
  /\ dispatched = <<>>
  /\ lro = [st |-> "none", attempt |-> 0, total_work_units |-> 0]
  /\ validation_result = <<>>
  /\ exc = "none"
  /\ raised_at = "none"
  /\ escaped = FALSE
  /\ output = <<>>
  /\ par = ParIdle

(***************************************************************************)
(* process_batch_sequential (activities/data_processing.py): one call, on  *)
(* a batch whose items carry the ids act.items; process_single_item raises *)
(* for the items whose index is in act.faults.                             *)
(***************************************************************************)
ItemIds == {"a", "b", "c"}

\* DataBatch.items: at least one item, ids unique (uuid4 by default).
ItemLists ==
  {s \in UNION {[1..n -> ItemIds] : n \in 1..MaxItems} :
     \A i, j \in DOMAIN s : i # j => s[i] # s[j]}

\* ProcessingResult, reduced to the fields the executors and the validator
\* read.
ProcessingResult(item_id, status) == [item_id |-> item_id, status |-> status]

\* BatchProcessingResult validators: successful <= total and
\* failed = total - successful.
BatchResultValid(total, successful, failed) ==
  /\ successful <= total
  /\ failed = total - successful

SeqExecInit ==
  /\ \E items \in ItemLists : \E F \in SUBSET (1..Len(items)) :
       act = [pc |-> "loop", items |-> items, batch_size |-> Len(items),
              faults |-> F, i |-> 1, item_results |-> <<>>,
              successful_count |-> 0, failed_count |-> 0,
              calls |-> <<>>, exception |-> "none", batch_result |-> <<>>]
  /\ RunIdle

\* An executor whose loop lets an item's fault out of the batch.
SeqExecutorPropagates == FALSE

\* The loop body is wrapped in try / except Exception.
SeqExecutorCatches == TRUE

\* A loop that hands the same item to the processor again.
SameItemAgain(i) == i

\* enumerate(): after item i, faulted or not, comes item i + 1.
NextItem(i) == i + 1

\* for i, item in enumerate(data_batch.items): heartbeat, then
\* await process_single_item(item).
SeqItemCall ==
  /\ act.pc = "loop"
  /\ act.i <= Len(act.items)
  /\ act' = [act EXCEPT !.pc = "in_item", !.calls = Append(@, act.i)]
  /\ UNCHANGED idleVars

\* process_single_item returns a completed ProcessingResult.
SeqItemReturns ==
  /\ act.pc = "in_item"
  /\ act.i \notin act.faults
  /\ act' = [act EXCEPT
               !.pc = "loop",
               !.item_results =
                  Append(@, ProcessingResult(act.items[act.i], "completed")),
               !.successful_count = @ + 1,
               !.i = NextItem(@)]
  /\ UNCHANGED idleVars

\* process_single_item raises DataProcessingError; the except branch
\* appends a failed ProcessingResult for the item.
SeqItemRaises ==
  /\ act.pc = "in_item"
  /\ act.i \in act.faults
  /\ IF SeqExecutorCatches
       THEN act' = [act EXCEPT
                      !.pc = "loop",
                      !.item_results =
                         Append(@, ProcessingResult(act.items[act.i], "failed")),
                      !.failed_count = @ + 1,
                      !.i = NextItem(@)]
       ELSE act' = [act EXCEPT !.pc = "raised",
                               !.exception = "DataProcessingError"]
  /\ UNCHANGED idleVars

\* After the loop: build the BatchProcessingResult (its validators run)
\* and return it.
SeqExecReturn ==
  /\ act.pc = "loop"
  /\ act.i > Len(act.items)
  /\ IF BatchResultValid(act.batch_size, act.successful_count,
                         act.failed_count)
       THEN act' = [act EXCEPT
                      !.pc = "returned",
                      !.batch_result =
                         <<[batch_id |-> 1,
                            total_items |-> act.batch_size,
                            successful_items |-> act.successful_count,
                            failed_items |-> act.failed_count,
                            item_results |-> act.item_results]>>]
       ELSE act' = [act EXCEPT !.pc = "raised",
                               !.exception = "ValidationError"]
  /\ UNCHANGED idleVars

SeqExecNext ==
  \/ SeqItemCall
  \/ SeqItemReturns
  \/ SeqItemRaises
  \/ SeqExecReturn

SpecSeq == SeqExecInit /\ [][SeqExecNext]_vars

(***************************************************************************)
(* validate_processing_results, called on its own: any list of            *)
(* BatchProcessingResults the model class accepts, consistent or not.      *)
(***************************************************************************)
ItemResultLists == UNION {[1..n -> ItemOutcome] : n \in 0..MaxBatchSize}

\* The BatchProcessingResults a caller can construct: the validators tie
\* the three counts together but not item_results.
AcceptedBatchResults ==
  {r \in [total_items : 1..MaxBatchSize, successful_items : 0..MaxBatchSize,
          failed_items : 0..MaxBatchSize, item_results : ItemResultLists] :
     BatchResultValid(r.total_items, r.successful_items, r.failed_items)}

\* Lists of accepted results; the k-th one carries batch id k.
ValidatorInputs ==
  {[k \in DOMAIN rs |->
      [batch_id |-> k, total_items |-> rs[k].total_items,
       successful_items |-> rs[k].successful_items,
       failed_items |-> rs[k].failed_items,
       item_results |-> rs[k].item_results]] :
     rs \in UNION {[1..n -> AcceptedBatchResults] : n \in 0..MaxBatches}}

ValidatorInit ==
  /\ \E rs \in ValidatorInputs :
       act = [pc |-> "start", results |-> rs, report |-> <<>>]
  /\ RunIdle

\* One call of validate_processing_results.
ValidateCall ==
  /\ act.pc = "start"
  /\ act' = [act EXCEPT !.pc = "returned",
                        !.report = <<validate_processing_results(act.results)>>]
  /\ UNCHANGED idleVars

ValidatorNext == ValidateCall

SpecVal == ValidatorInit /\ [][ValidatorNext]_vars

(***************************************************************************)
(* send_webhook_notification and _send_webhook_with_retries                *)
(* (activities/notifications.py): one call of the activity.  Time is in    *)
(* whole seconds; act.post_times[k] is when the k-th POST was sent.        *)
(***************************************************************************)
\* Retry policies an event can carry: <<>> is the empty default dict,
\* <<p>> a dict with the four keys.
RetryPolicies ==
  {<<>>} \cup
  {<<p>> : p \in [max_attempts : 1..MaxAttempts, initial_delay : {1, 2},
                  max_delay : {PolicyMaxDelay}, backoff_multiplier : {2}]}

\* retry_config = notification.retry_policy or {defaults}
RetryConfig(policy) ==
  IF policy = <<>>
    THEN [max_attempts |-> DefaultMaxAttempts,
          initial_delay |-> DefaultInitialDelay,
          max_delay |-> DefaultMaxDelay,
          backoff_multiplier |-> DefaultBackoffMultiplier]
    ELSE policy[1]

\* NotificationEvent.priority as the activity sees it: with
\* use_enum_values a validated priority is a plain str, and only a
\* defaulted one is still a Priority member.
PriorityKinds == {"enum", "str"}

\* Only an Enum member has a .value attribute.
HasValueAttribute(kind) == kind = "enum"

\* Retry-After header of a 429 response: absent, not an integer, or a
\* number of seconds in decimal.
RetryAfterHints == {"absent", "http-date", "2", "5"}

\* The header values int() can parse, with their values.
IntLiterals == {"2", "5"}
ParseInt(text) == CASE text = "2" -> 2 [] text = "5" -> 5

StatusCodes == {200, 302, 404, 429, 500}

\* What one POST can end in.
PostOutcomes ==
  {[kind |-> "response", status |-> sc, retry_after |-> "absent"] :
     sc \in StatusCodes \ {429}}
  \cup {[kind |-> "response", status |-> 429, retry_after |-> h] :
          h \in RetryAfterHints}
  \cup {[kind |-> "network_error", status |-> 0, retry_after |-> "absent"]}

\* The endpoint: unconstrained, or answering every POST with 429 and a
\* Retry-After hint of r seconds.
Endpoints ==
  {[kind |-> "any", retry_after |-> "absent"]}
  \cup {[kind |-> "rate_limited", retry_after |-> r] : r \in IntLiterals}

EndpointAnswers(endpoint) ==
  IF endpoint.kind = "any"
    THEN PostOutcomes
    ELSE {[kind |-> "response", status |-> 429,
           retry_after |-> endpoint.retry_after]}

RECURSIVE Pow(_, _)
Pow(b, e) == IF e = 0 THEN 1 ELSE b * Pow(b, e - 1)

\* A success test that accepts 2xx only.
IsSuccessStatus2xxOnly(status) == status < 300

\* if response.status_code < 400
IsSuccessStatus(status) == status < 400

\* A 429 branch that clamps at max_delay without reading the status-specific
\* hint default: an absent or unparsable hint gives no delay at all.
RetryDelayHintOnly(retry_after, initial_delay) ==
  IF retry_after \in IntLiterals THEN ParseInt(retry_after) ELSE 0

\* A test that takes only 400 itself for a client error.
IsClientError400Only(status) == status = 400

\* elif 400 <= response.status_code < 500 (429 was handled before)
IsClientError(status) == status >= 400 /\ status < 500

\* retry_delay = int(retry_after), initial_delay when that fails or the
\* header is absent.
RetryDelay(retry_after, initial_delay) ==
  IF retry_after \in IntLiterals THEN ParseInt(retry_after)
                                 ELSE initial_delay

\* await asyncio.sleep(min(retry_delay, max_delay))
RateLimitWait(retry_delay, max_delay) == Min(retry_delay, max_delay)

\* A backoff that is never clamped at max_delay.
BackoffDelayUnclamped(cfg, attempt) ==
  cfg.initial_delay * Pow(cfg.backoff_multiplier, attempt - 1)

\* delay = min(initial_delay * backoff_multiplier ** (attempt - 1), max_delay)
BackoffDelay(cfg, attempt) ==
  Min(cfg.initial_delay * Pow(cfg.backoff_multiplier, attempt - 1),
      cfg.max_delay)

HookInit ==
  /\ \E kind \in PriorityKinds, policy \in RetryPolicies, ep \in Endpoints :
       act = [pc |-> "start", priority |-> kind, retry_policy |-> policy,
              endpoint |-> ep, attempt |-> 0, posts |-> 0, clock |-> 0,
              wait |-> 0, responses |-> <<>>, post_times |-> <<>>,
              waits |-> <<>>, delivery |-> <<>>, result |-> <<>>]
  /\ RunIdle

\* The result send_webhook_notification returns for a delivery result.
NotificationResult(delivery) ==
  [delivery_status |-> IF delivery.success THEN "success" ELSE "failed",
   attempts |-> delivery.attempts]

\* An activity body without the outer except branch.
ActivityPropagatesException == FALSE

\* except Exception as e (line 118) around the whole activity body.
ActivityCatchesException == TRUE

\* Lines 46-84: build payload and headers (notification.priority.value),
\* choose the retry policy, enter _send_webhook_with_retries.  A fault
\* here lands in the except branch: delivery_status error, attempts 0.
HookBegin ==
  /\ act.pc = "start"
  /\ IF HasValueAttribute(act.priority)
       THEN act' = [act EXCEPT !.pc = "ready", !.attempt = 1]
       ELSE IF ActivityCatchesException
         THEN act' = [act EXCEPT
                        !.pc = "returned",
                        !.result = <<[delivery_status |-> "error",
                                      attempts |-> 0]>>]
         ELSE act' = [act EXCEPT !.pc = "raised"]
  /\ UNCHANGED idleVars

\* _send_webhook_with_retries returns `delivery`, and the activity returns.
Delivered(delivery) ==
  [act EXCEPT !.pc = "returned",
              !.delivery = <<delivery>>,
              !.result = <<NotificationResult(delivery)>>]

\* The loop goes to sleep for d seconds before the next attempt.
SleepFor(d) == [act EXCEPT !.pc = "sleeping", !.wait = d,
                           !.waits = Append(@, d)]

\* One iteration of the for loop: POST, which takes `latency` seconds and
\* ends in `answer`, then the handling of that outcome.
HookPost(answer, latency) ==
  /\ act.pc = "ready"
  /\ answer \in EndpointAnswers(act.endpoint)
  /\ LET cfg == RetryConfig(act.retry_policy)
         sent == [act EXCEPT !.posts = @ + 1,
                             !.responses = Append(@, answer),
                             !.post_times = Append(@, act.clock),
                             !.clock = @ + latency]
         exhausted == [success |-> FALSE, attempts |-> cfg.max_attempts]
     IN act' =
          IF answer.kind = "response" /\ IsSuccessStatus(answer.status)
            THEN [Delivered([success |-> TRUE, attempts |-> act.attempt])
                    EXCEPT !.posts = sent.posts, !.responses = sent.responses,
                           !.post_times = sent.post_times,
                           !.clock = sent.clock]
          ELSE IF answer.kind = "response" /\ answer.status = 429
            THEN IF act.attempt < cfg.max_attempts
                   THEN [SleepFor(RateLimitWait(
                                    RetryDelay(answer.retry_after,
                                               cfg.initial_delay),
                                    cfg.max_delay))
                           EXCEPT !.posts = sent.posts,
                                  !.responses = sent.responses,
                                  !.post_times = sent.post_times,
                                  !.clock = sent.clock]
                   \* RateLimitError is raised and caught by the loop's own
                   \* `except Exception`; the loop ends
                   ELSE [Delivered(exhausted)
                           EXCEPT !.posts = sent.posts,
                                  !.responses = sent.responses,
                                  !.post_times = sent.post_times,
                                  !.clock = sent.clock]
          ELSE IF answer.kind = "response" /\ IsClientError(answer.status)
            THEN [Delivered([success |-> FALSE, attempts |-> act.attempt])
                    EXCEPT !.posts = sent.posts, !.responses = sent.responses,
                           !.post_times = sent.post_times,
                           !.clock = sent.clock]
          ELSE \* server error or network error
               IF act.attempt < cfg.max_attempts
                 THEN [SleepFor(BackoffDelay(cfg, act.attempt))
                         EXCEPT !.posts = sent.posts,
                                !.responses = sent.responses,
                                !.post_times = sent.post_times,
                                !.clock = sent.clock]
                 ELSE [Delivered(exhausted)
                         EXCEPT !.posts = sent.posts,
                                !.responses = sent.responses,
                                !.post_times = sent.post_times,
                                !.clock = sent.clock]
  /\ UNCHANGED idleVars

\* asyncio.sleep is over: next iteration of the loop.
HookWake ==
  /\ act.pc = "sleeping"
  /\ act' = [act EXCEPT !.pc = "ready", !.clock = @ + act.wait,
                        !.wait = 0, !.attempt = @ + 1]
  /\ UNCHANGED idleVars

HookNext ==
  \/ HookBegin
  \/ \E answer \in PostOutcomes : \E latency \in 0..MaxLatency :
       HookPost(answer, latency)
  \/ HookWake

SpecHook == HookInit /\ [][HookNext]_vars

(***************************************************************************)
(* process_large_dataset (activities/long_running.py): one call of the     *)
(* activity.  Percentages are in thousandths of a percent.                 *)
(***************************************************************************)
\* work_units_per_batch = min(operation_input.work_unit_size, 1000)
WorkUnitsPerBatch(work_unit_size) == Min(work_unit_size, WorkUnitCap)

\* total_batches = (total + per_batch - 1) // per_batch
TotalBatches(total_work_units, work_unit_size) ==
  (total_work_units + WorkUnitsPerBatch(work_unit_size) - 1)
    \div WorkUnitsPerBatch(work_unit_size)

\* A batch that always takes work_units_per_batch units.
UnitsInBatchUncapped(total_work_units, work_unit_size, completed_units) ==
  WorkUnitsPerBatch(work_unit_size)

\* units_in_batch = min(work_units_per_batch, total - completed_units)
UnitsInBatch(total_work_units, work_unit_size, completed_units) ==
  Min(WorkUnitsPerBatch(work_unit_size), total_work_units - completed_units)

\* A percentage taken of the units still to do.
ProgressPercentageOfRemaining(completed, total) ==
  ((total - completed) * 100000) \div total

\* progress_percentage = (completed_units / total_work_units) * 100
ProgressPercentage(completed, total) == (completed * 100000) \div total

\* ProgressUpdate's field constraints and validate_progress_percentage:
\* abs(v - (completed / total) * 100) > 0.1 raises.
ProgressUpdateValid(completed, total, v) ==
  LET expected == (completed * 100000) \div total
      diff == IF v >= expected THEN v - expected ELSE expected - v
  IN /\ completed >= 0
     /\ total > 0
     /\ v >= 0
     /\ v <= 100000
     /\ diff <= 100

\* A final status that lets one failed unit fail the operation.
FinalStatusAnyFailureFails(completed_units, failed_units) ==
  IF failed_units = 0 THEN "completed" ELSE "failed"

\* Determine final status (lines 180-185).
FinalStatus(completed_units, failed_units) ==
  IF failed_units = 0 THEN "completed"
  ELSE IF completed_units = 0 THEN "failed"
  ELSE "completed"

\* A failed output that drops what had been accumulated.
LroFailedOutputEmpty(total_work_units, completed_units, progress_history) ==
  [status |-> "failed", total_work_units |-> total_work_units,
   completed_work_units |-> 0, failed_work_units |-> total_work_units,
   progress_history |-> <<>>]

\* The output built in the except branch (lines 245-256).
LroFailedOutput(total_work_units, completed_units, progress_history) ==
  [status |-> "failed", total_work_units |-> total_work_units,
   completed_work_units |-> completed_units,
   failed_work_units |-> total_work_units,
   progress_history |-> progress_history]

\* A heartbeat condition that looks at the interval only.
HeartbeatDueIgnoringEnable(enable_heartbeat, current_time, last_heartbeat, interval) ==
  current_time - last_heartbeat >= interval

\* if (operation_input.enable_heartbeat and
\*     current_time - last_heartbeat >= heartbeat_interval_seconds)
HeartbeatDue(enable_heartbeat, current_time, last_heartbeat, interval) ==
  /\ enable_heartbeat
  /\ current_time - last_heartbeat >= interval

\* LongRunningOperationInput values: small datasets, and two with a
\* work_unit_size at and above the cap of 1000 and the heartbeat settings
\* the orchestrator passes (interval 10 seconds).
LroInputs ==
  [total_work_units : 1..MaxWorkUnits, work_unit_size : 1..MaxUnitSize,
   enable_progress_updates : BOOLEAN, enable_heartbeat : BOOLEAN,
   heartbeat_interval_seconds : 1..MaxHeartbeatInterval]
  \cup {[total_work_units |-> 2500, work_unit_size |-> 2000,
         enable_progress_updates |-> TRUE, enable_heartbeat |-> TRUE,
         heartbeat_interval_seconds |-> 10],
        [total_work_units |-> 10000, work_unit_size |-> 1000,
         enable_progress_updates |-> FALSE, enable_heartbeat |-> TRUE,
         heartbeat_interval_seconds |-> 10]}

LroInit ==
  /\ \E inp \in LroInputs :
       act = [pc |-> "loop", input |-> inp,
              total_batches |-> TotalBatches(inp.total_work_units,
                                             inp.work_unit_size),
              batch_idx |-> 0, completed_units |-> 0, failed_units |-> 0,
              clock |-> 0, last_heartbeat |-> 0,
              batches |-> <<>>, progress_history |-> <<>>,
              exception |-> "none", output |-> <<>>]
  /\ RunIdle

\* One iteration of the batch loop (lines 73-173).  `faulted`: the batch
\* raised; `due`: the progress interval has elapsed; `fault`: activity
\* .heartbeat() or activity.info() raised, outside the per-batch handler;
\* `seconds`: the time _process_work_unit_batch took (it never heartbeats).
LroBatch(faulted, due, fault, seconds) ==
  /\ act.pc = "loop"
  /\ act.batch_idx < act.total_batches
  /\ due => act.input.enable_progress_updates
  /\ act.clock + seconds <= MaxClock
  /\ LET total == act.input.total_work_units
         current_time == act.clock + seconds
         heartbeat == HeartbeatDue(act.input.enable_heartbeat, current_time,
                                   act.last_heartbeat,
                                   act.input.heartbeat_interval_seconds)
         units == UnitsInBatch(total, act.input.work_unit_size,
                               act.completed_units)
         completed == IF faulted THEN act.completed_units
                                 ELSE act.completed_units + units
         failed == IF faulted THEN act.failed_units + units
                              ELSE act.failed_units
         v == ProgressPercentage(completed, total)
         rejected == due /\ ~ProgressUpdateValid(completed, total, v)
         history == IF due /\ ~rejected /\ fault # "heartbeat"
                      THEN Append(act.progress_history,
                                  [completed_work_units |-> completed,
                                   total_work_units |-> total,
                                   progress_percentage |-> v,
                                   current_stage |-> act.batch_idx + 1])
                      ELSE act.progress_history
         exception == IF fault = "heartbeat" THEN "heartbeat"
                      ELSE IF rejected THEN "ValidationError"
                      ELSE fault
         counted == [act EXCEPT
                       !.completed_units = completed,
                       !.failed_units = failed,
                       !.clock = current_time,
                       !.last_heartbeat =
                         IF heartbeat /\ fault # "heartbeat"
                           THEN current_time ELSE @,
                       !.batches = Append(@, [units |-> units,
                                              faulted |-> faulted,
                                              heartbeat |-> heartbeat]),
                       !.progress_history = history,
                       !.exception = exception]
     IN /\ fault = "heartbeat" => heartbeat
        /\ act' =
             IF exception = "none"
               THEN [counted EXCEPT !.batch_idx = @ + 1]
               ELSE [counted EXCEPT
                       !.pc = "returned",
                       !.output =
                         <<LroFailedOutput(total, completed, history)>>]
  /\ UNCHANGED idleVars

\* After the loop: final status and output (lines 175-230).
LroFinish ==
  /\ act.pc = "loop"
  /\ act.batch_idx = act.total_batches
  /\ act' = [act EXCEPT
               !.pc = "returned",
               !.output =
                 <<[status |-> FinalStatus(act.completed_units,
                                           act.failed_units),
                    total_work_units |-> act.input.total_work_units,
                    completed_work_units |-> act.completed_units,
                    failed_work_units |-> act.failed_units,
                    progress_history |-> act.progress_history]>>]
  /\ UNCHANGED idleVars

LroNext ==
  \/ \E faulted \in BOOLEAN, due \in BOOLEAN :
       \E fault \in {"none", "heartbeat", "info"}, seconds \in 0..MaxBatchSeconds :
         LroBatch(faulted, due, fault, seconds)
  \/ LroFinish

SpecLro == LroInit /\ [][LroNext]_vars

(***************************************************************************)
(* process_single_item (activities/data_processing.py): one call.          *)
(***************************************************************************)
\* DataItem values: content that encodes to UTF-8 or holds a lone
\* surrogate, a size in bytes, an optional checksum.
DataItems ==
  [content : {"text", "lone-surrogate"},
   size_bytes : {1, 50000, 100000, 2000000},
   checksum : BOOLEAN]

\* processing_delay = min(size_bytes / 10000, 10) exceeds the heartbeat
\* timeout (seconds; 0 stands for no heartbeat timeout).
ExceedsHeartbeatTimeout(size_bytes, heartbeat_timeout) ==
  /\ heartbeat_timeout > 0
  /\ Min(size_bytes, 100000) > heartbeat_timeout * 10000

\* The except clauses of lines 101-137: asyncio.TimeoutError gives a
\* result with status timeout, every other exception is raised again as
\* DataProcessingError.
HandleItemException(cause) ==
  IF cause = "asyncio.TimeoutError"
    THEN [act EXCEPT !.pc = "returned", !.cause = cause,
                     !.result = <<[status |-> "timeout"]>>]
    ELSE [act EXCEPT !.pc = "raised", !.cause = cause,
                     !.raised = "DataProcessingError"]

SingleItemInit ==
  /\ \E item \in DataItems, timeout \in 0..MaxHeartbeatTimeout :
       act = [pc |-> "start", item |-> item, heartbeat_timeout |-> timeout,
              cause |-> "none", raised |-> "none", result |-> <<>>]
  /\ RunIdle

\* Lines 43-60: activity.info() and the timeout-avoidance check.
\* `fault`: activity.info() raised.
SingleItemCheck(fault) ==
  /\ act.pc = "start"
  /\ act' =
       IF fault THEN HandleItemException("activity.info")
       ELSE IF ExceedsHeartbeatTimeout(act.item.size_bytes,
                                       act.heartbeat_timeout)
         THEN HandleItemException("ActivityTimeoutError")
       ELSE [act EXCEPT !.pc = "processing"]
  /\ UNCHANGED idleVars

\* Lines 62-99: sleep, heartbeat, transformation, result.  `fault`: what
\* the awaited sleep or activity.heartbeat() raised, if anything.
SingleItemProcess(fault) ==
  /\ act.pc = "processing"
  /\ act' =
       IF fault # "none" THEN HandleItemException(fault)
       \* processed_content.encode('utf-8') in output_metadata
       ELSE IF act.item.content = "lone-surrogate"
         THEN HandleItemException("UnicodeEncodeError")
       ELSE [act EXCEPT !.pc = "returned",
                        !.result = <<[status |-> "completed"]>>]
  /\ UNCHANGED idleVars

SingleItemNext ==
  \/ \E fault \in BOOLEAN : SingleItemCheck(fault)
  \/ \E fault \in {"none", "asyncio.TimeoutError", "activity.heartbeat"} :
       SingleItemProcess(fault)

SpecItem == SingleItemInit /\ [][SingleItemNext]_vars

(***************************************************************************)
(* _process_batches_parallel on its own (workflows/orchestration.py): the  *)
(* tasks of asyncio.gather, the semaphore, and the awaiting coroutine.     *)
(* A task is waiting (on the semaphore), running (its child workflow is    *)
(* in flight), returned / degraded (the child returned a result, degraded  *)
(* when its executor had failed) or failed (execute_child_workflow         *)
(* raised).                                                                *)
(***************************************************************************)
\* semaphore = asyncio.Semaphore(parallel_batches); tasks = [...]
FanOutInit ==
  /\ \E n \in 1..MaxFanBatches, permits \in 1..MaxFanBatches :
       act = [pc |-> "gathering", permits |-> permits, value |-> permits,
              task |-> [i \in 1..n |-> "waiting"]]
  /\ RunIdle

\* `async with semaphore`: the longest-waiting task takes a free permit and
\* calls execute_child_workflow.
BatchTaskAcquire(i) ==
  /\ act.pc = "gathering"
  /\ act.task[i] = "waiting"
  /\ \A j \in DOMAIN act.task : j < i => act.task[j] # "waiting"
  /\ act.value > 0
  /\ act' = [act EXCEPT !.value = @ - 1, !.task[i] = "running"]
  /\ UNCHANGED idleVars

\* A task whose child returns but which keeps its permit.
BatchTaskKeepsPermit(i, r) ==
  /\ act.pc = "gathering"
  /\ act.task[i] = "running"
  /\ act' = [act EXCEPT !.task[i] = r]
  /\ UNCHANGED idleVars

\* execute_child_workflow returns r; __aexit__ releases the permit.
BatchTaskReturns(i, r) ==
  /\ act.pc = "gathering"
  /\ act.task[i] = "running"
  /\ act' = [act EXCEPT !.value = @ + 1, !.task[i] = r]
  /\ UNCHANGED idleVars

\* execute_child_workflow raises; __aexit__ releases the permit and
\* asyncio.gather, called without return_exceptions, raises in the awaiting
\* coroutine at once.  Whether the waiter woken by the release gets to
\* start before run returns is left open (`handover`).
BatchTaskRaises(i, handover) ==
  /\ act.pc = "gathering"
  /\ act.task[i] = "running"
  /\ LET waiting == {j \in DOMAIN act.task : act.task[j] = "waiting"}
         next == CHOOSE j \in waiting : \A k \in waiting : j <= k
     IN IF handover /\ waiting # {}
          THEN act' = [act EXCEPT !.pc = "raised", !.task[i] = "failed",
                                  !.task[next] = "running"]
          ELSE act' = [act EXCEPT !.pc = "raised", !.task[i] = "failed",
                                  !.value = @ + 1]
  /\ UNCHANGED idleVars

\* Every task has a result: gather returns, return list(batch_results).
GatherReturns ==
  /\ act.pc = "gathering"
  /\ \A i \in DOMAIN act.task : act.task[i] \in {"returned", "degraded"}
  /\ act' = [act EXCEPT !.pc = "returned"]
  /\ UNCHANGED idleVars

FanOutNext ==
  \/ \E i \in DOMAIN act.task : BatchTaskAcquire(i)
  \/ \E i \in DOMAIN act.task, r \in {"returned", "degraded"} :
       BatchTaskReturns(i, r)
  \/ \E i \in DOMAIN act.task, handover \in BOOLEAN :
       BatchTaskRaises(i, handover)
  \/ GatherReturns

\* The engine ends every child workflow it started (execution_timeout of
\* 30 minutes) and the event loop runs every task that is ready.
SpecFan == FanOutInit /\ [][FanOutNext]_vars /\ WF_vars(FanOutNext)

(***************************************************************************)
(* Properties of DataProcessingOrchestrator.run (checked under Spec).      *)
(***************************************************************************)
FailurePath == {"Failing", "FailureNotified", "Failed"}

\* The result batch i has handed to the orchestrator, if any.
HasResult(i) ==
  IF SequentialMode THEN i <= Len(local_results) ELSE gathered[i] # <<>>

ResultOf(i) == IF SequentialMode THEN local_results[i] ELSE gathered[i][1]

RunningChildren == {i \in Batches : child[i] = "running"}

\* C1: from every valid input, whatever combination of units fails, run is
\* never stuck before it ends, no exception escapes it, and it ends by
\* returning exactly one WorkflowOutput whose status is completed or failed.
C1_RunReturnsOneOutput ==
  /\ ~escaped /\ pc # "Escaped"
  /\ Len(output) <= 1
  /\ (Len(output) = 1) <=> (pc \in {"Completed", "Failed"})
  /\ pc = "Completed" => output[1].status = "completed"
  /\ pc = "Failed" => output[1].status = "failed"
  /\ Running => ENABLED Next

\* C1 witness: the long-running unit failed for good, on top of an audit
\* failure, and run has returned a failed output.
C1_Witness ==
  /\ pc = "Failed"
  /\ raised_at = "PostProcessing"
  /\ IsFailure(unit["audit"])
  /\ Len(output) = 1

\* C2: an exception raised in any stage of run puts the run on the failure
\* path for good, and the output returned there has status failed,
\* successful_items = 0 and the exception's message as error_summary.
C2_FailedOutputCarriesMessage ==
  /\ (exc # "none") <=> (pc \in FailurePath)
  /\ (exc # "none") =>
       /\ raised_at \in {"BatchesExecuting", "Validating", "PostProcessing"}
       /\ raised_at = "Validating" =>
            exc = "ActivityError:validate_processing_results"
       /\ raised_at = "PostProcessing" =>
            exc = "ActivityError:process_large_dataset"
       /\ raised_at = "BatchesExecuting" =>
            exc \in {"ChildWorkflowError",
                     "ActivityError:update_metrics_dashboard"}
  /\ pc = "Failed" =>
       /\ output[1].status = "failed"
       /\ output[1].successful_items = 0
       /\ output[1].failed_items = TotalInputItems
       /\ output[1].error_summary = exc

\* C2 witness: a batch had already succeeded when a later child workflow
\* failed, and the failed output has been returned.
C2_Witness ==
  /\ pc = "Failed"
  /\ exc = "ChildWorkflowError"
  /\ Len(local_results) >= 1
  /\ local_results[1].successful_items > 0

\* C3: when post-processing is enabled and the long-running unit fails
\* (by a failed result, or for good after its 2 engine attempts), the run
\* still goes on to the completion notification and the metrics and ends
\* with status completed.
C3_PostProcessingFailureTolerated ==
  (lro.st \in {"returned:failed", "raised:ActivityError"}) =>
     /\ pc \notin FailurePath
     /\ pc = "Completed" =>
          /\ output[1].status = "completed"
          /\ metrics_started = MetricsPerRun
          /\ HasWebhook => unit["notify_completed"] # "none"

C5_SequentialOrder ==
  SequentialMode =>
    /\ \A i \in Batches :
         child[i] # "idle" =>
           /\ Len(local_results) >= i - 1
           /\ \A j \in Batches : j < i => child[j] = "done"
    /\ Cardinality(RunningChildren) <= 1
    /\ \A k \in DOMAIN local_results : local_results[k].batch_id = k

\* C5 witness: the second batch is running after the first one's result.
C5_Witness ==
  /\ SequentialMode
  /\ NumBatches = 2
  /\ child[2] = "running"
  /\ Len(local_results) = 1

\* C6: in parallel mode the number of batch workflows in flight never
\* exceeds parallel_batches, whatever the number of batches and the order
\* in which they complete.
C6_ParallelBound ==
  (~SequentialMode /\ pc # "Started" /\ pc # "AuditLogged"
     /\ pc # "MonitoringStarted") =>
    /\ Cardinality(RunningChildren) <= workflow_input.parallel_batches
    /\ semaphore >= 0
    /\ semaphore + Cardinality(RunningChildren) = workflow_input.parallel_batches

\* C6 witness: with parallel_batches = 1 and two batches, batch 1 holds
\* the only permit and batch 2 is kept waiting.
C6_Witness ==
  /\ ~SequentialMode
  /\ workflow_input.parallel_batches = 1
  /\ NumBatches = 2
  /\ child[1] = "running"
  /\ child[2] = "pending"
  /\ semaphore = 0

\* C7: a completion webhook whose delivery fails (or whose unit fails
\* outright) never keeps the run from completing, and the output is the one
\* computed from the batch results alone.
C7_WebhookNeverInfluencesOutput ==
  IsFailure(unit["notify_completed"]) =>
    /\ pc \notin FailurePath
    /\ exc = "none"
    /\ pc = "Completed" =>
         /\ output[1].status = "completed"
         /\ output[1].batch_results = batch_results
         /\ output[1].total_items =
              SumSeq([k \in Batches |-> batch_results[k].total_items])
         /\ output[1].successful_items =
              SumSeq([k \in Batches |-> batch_results[k].successful_items])
         /\ output[1].error_summary = "none"

\* C7 witness: the webhook endpoint was unreachable and the run completed.
C7_Witness ==
  /\ pc = "Completed"
  /\ unit["notify_completed"] = "returned:failed"
  /\ output[1].successful_items > 0

\* C8: no metrics update is awaited by run, the per-batch progress metric
\* of sequential mode included, and a metrics update that fails never
\* fails the run.
C8_MetricsFireAndForget ==
  /\ awaiting # "progress"
  /\ exc # "ActivityError:update_metrics_dashboard"

\* C9: a fault inside the audit unit leaves it as a raised
\* ActivityExecutionError, never as a returned value, and since run never
\* awaits the audit handle that failure reaches neither the stages that
\* follow nor the output.
C9_AuditFailureIsolated ==
  /\ awaiting # "audit"
  /\ IsFailure(unit["audit"]) =>
       /\ unit["audit"] = "raised:ActivityExecutionError"
       /\ exc # "ActivityError:log_audit_event"
       /\ raised_at # "AuditLogged"

\* C9 witness: the audit unit raised and the run completed all the same.
C9_Witness ==
  /\ pc = "Completed"
  /\ unit["audit"] = "raised:ActivityExecutionError"
  /\ output[1].status = "completed"

(***************************************************************************)
(* Properties of process_batch_parallel (checked under SpecPar).           *)
(***************************************************************************)
\* C10: a call of process_batch_parallel on a batch whose items in F fail
\* never raises: it returns a BatchProcessingResult with failed_items = |F|
\* and successful_items = batch_size - |F|.
C10_ParallelBatchNeverRaises ==
  /\ par.pc # "raised"
  /\ par.pc = "returned" =>
       /\ par.batch_result[1].failed_items = Cardinality(par.faults)
       /\ par.batch_result[1].successful_items = par.n - Cardinality(par.faults)

(***************************************************************************)
(* Properties of process_batch_sequential (checked under SpecSeq).         *)
(***************************************************************************)
\* C11: in process_batch_sequential an item's fault never aborts the batch:
\* the faulted item gets a ProcessingResult with status failed, and the
\* call returns only after every item, the later ones included, was handed
\* to the processor and has a result.
C11_ItemFaultIsolated ==
  /\ act.pc # "raised"
  /\ \A k \in DOMAIN act.item_results :
       k \in act.faults =>
         act.item_results[k] = ProcessingResult(act.items[k], "failed")
  /\ act.pc = "returned" =>
       /\ \A k \in DOMAIN act.items : \E c \in DOMAIN act.calls : act.calls[c] = k
       /\ Len(act.batch_result[1].item_results) = Len(act.items)
       /\ act.batch_result[1].failed_items = Cardinality(act.faults)

\* C11 witness: the first of three items faulted, the two after it were
\* still processed and completed, and the batch returned.
C11_Witness ==
  /\ act.pc = "returned"
  /\ Len(act.items) = 3
  /\ act.faults = {1}
  /\ act.batch_result[1].item_results[1].status = "failed"
  /\ act.batch_result[1].item_results[2].status = "completed"
  /\ act.batch_result[1].item_results[3].status = "completed"

\* C14: process_batch_sequential hands the items to the processor strictly
\* in input order, each exactly once, and item_results[i] is the result of
\* batch.items[i].
C14_SequentialItemOrder ==
  /\ \A c \in DOMAIN act.calls : act.calls[c] = c
  /\ Len(act.calls) <= Len(act.items)
  /\ \A k \in DOMAIN act.item_results :
       /\ act.item_results[k].item_id = act.items[k]
       /\ act.item_results[k].status =
            (IF k \in act.faults THEN "failed" ELSE "completed")
  /\ act.pc = "returned" =>
       /\ Len(act.calls) = Len(act.items)
       /\ act.batch_result[1].item_results = act.item_results
       /\ Len(act.item_results) = Len(act.items)

\* C14 witness: a three-item batch whose ids are not in alphabetical order,
\* with a fault in the middle, has returned.
C14_Witness ==
  /\ act.pc = "returned"
  /\ act.items = <<"c", "a", "b">>
  /\ act.faults = {2}
  /\ act.calls = <<1, 2, 3>>

(***************************************************************************)
(* Further properties of process_batch_parallel (checked under SpecPar).   *)
(***************************************************************************)
ItemsInProcessor == {k \in 1..par.n : par.task[k] = "running"}

\* C12: in process_batch_parallel the number of items inside the Item
\* Processor at the same time never exceeds
\* min(max_concurrent_activities, batch_size), in any interleaving.
C12_ItemConcurrencyBound ==
  /\ Cardinality(ItemsInProcessor) <= par.setting
  /\ Cardinality(ItemsInProcessor) <= par.n
  /\ par.sem >= 0
  /\ par.pc = "gathering" =>
       par.sem + Cardinality(ItemsInProcessor) =
         (IF par.setting < par.n THEN par.setting ELSE par.n)

\* C12 witness: with max_concurrent_activities = 1 and three items, one
\* item is in the processor, one is done and one is kept waiting.
C12_Witness ==
  /\ par.setting = 1
  /\ par.n = 3
  /\ par.task[2] = "running"
  /\ par.task[1] = "done"
  /\ par.task[3] = "waiting"
  /\ par.sem = 0

\* C13: in process_batch_parallel, whatever order the item tasks complete
\* in, the aggregated list of item results (built at lines 283-300) is
\* aligned with the input: entry i carries the id of batch.items[i] and
\* that item's outcome.
C13_ParallelResultsAligned ==
  par.pc \in {"gathered", "raised", "returned"} =>
    /\ Len(par.processed_ids) = par.n
    /\ Len(par.processed_results) = par.n
    /\ \A i \in 1..par.n :
         /\ par.processed_ids[i] = i
         /\ par.processed_results[i] =
              (IF i \in par.faults THEN "failed" ELSE "completed")

\* C13 witness: three items completed in the order 3, 1, 2 and the
\* aggregated list has been built.
C13_Witness ==
  /\ par.pc = "gathered"
  /\ par.n = 3
  /\ par.finish_order = <<3, 1, 2>>
  /\ par.processed_ids = <<1, 2, 3>>

(***************************************************************************)
(* Properties of the batch results the orchestrator receives (under Spec). *)
(***************************************************************************)
BatchesWithResult == {i \in Batches : HasResult(i)}

\* C15: every BatchProcessingResult that reaches the orchestrator, from an
\* executor or from the child workflow's failure path, has
\* successful_items + failed_items = total_items and total_items equal to
\* the batch's batch_size.
C15_BatchCountsAddUp ==
  \A i \in BatchesWithResult :
    /\ ResultOf(i).total_items = workflow_input.batches[i].batch_size
    /\ ResultOf(i).successful_items + ResultOf(i).failed_items
         = ResultOf(i).total_items
    /\ ResultOf(i).successful_items >= 0
    /\ ResultOf(i).failed_items >= 0

\* C15 witness: the orchestrator holds a partly failed executor result for
\* batch 1 and a degraded result for batch 2.
C15_Witness ==
  /\ NumBatches = 2
  /\ BatchesWithResult = {1, 2}
  /\ ResultOf(1).successful_items = 1
  /\ ResultOf(1).failed_items = 1
  /\ 2 \in activity_failed
  /\ ResultOf(2).failed_items = 2

\* C16: every BatchProcessingResult that reaches the orchestrator, the
\* degraded result of a failed batch sub-unit included, has
\* len(item_results) = total_items.
C16_ItemResultsComplete ==
  \A i \in BatchesWithResult :
    Len(ResultOf(i).item_results) = ResultOf(i).total_items

(***************************************************************************)
(* Properties of validate_processing_results (checked under SpecVal).      *)
(***************************************************************************)
\* The consistency checks a batch result violates.
ViolatedChecks(results) ==
  {<<k, "count">> : k \in {j \in DOMAIN results :
       results[j].total_items # Len(results[j].item_results)}}
  \cup
  {<<k, "successful">> : k \in {j \in DOMAIN results :
       Cardinality({x \in DOMAIN results[j].item_results :
                      results[j].item_results[x] = "completed"})
         # results[j].successful_items}}

\* C17: validate_processing_results returns validation_successful = true
\* exactly when every batch result has total_items = len(item_results) and
\* as many completed item results as successful_items; each violated check
\* adds one message, and the batches after a violation are still checked.
C17_ValidatorReport ==
  act.pc = "returned" =>
    LET report == act.report[1]
        violated == ViolatedChecks(act.results)
    IN /\ report.validation_successful <=> (violated = {})
       /\ Len(report.validation_errors) = Cardinality(violated)
       /\ \A v \in violated :
            \E e \in DOMAIN report.validation_errors :
              report.validation_errors[e] =
                <<v[1], IF v[2] = "count" THEN "item count mismatch"
                                          ELSE "successful count mismatch">>

\* C17 witness: two batch results that each violate both checks were
\* validated, and the report carries all four messages.
C17_Witness ==
  /\ act.pc = "returned"
  /\ Len(act.results) = 2
  /\ Cardinality(ViolatedChecks(act.results)) = 4
  /\ ~act.report[1].validation_successful
  /\ Len(act.report[1].validation_errors) = 4

(***************************************************************************)
(* Use of the validation report by the orchestrator (under Spec).          *)
(***************************************************************************)
\* C18: on the success path the output's total / successful / failed item
\* counts and summary_statistics are exactly the validator's statistics,
\* partial failures included, and a report with violations never aborts
\* the run nor changes the status from completed.
C18_OutputCarriesValidatorStatistics ==
  /\ pc = "Completed" =>
       /\ validation_result # <<>>
       /\ output[1].status = "completed"
       /\ output[1].total_items = validation_result[1].statistics.total_items
       /\ output[1].successful_items =
            validation_result[1].statistics.successful_items
       /\ output[1].failed_items = validation_result[1].statistics.failed_items
       /\ output[1].summary_statistics = <<validation_result[1].statistics>>
       /\ validation_result[1] = validate_processing_results(batch_results)
  /\ (validation_result # <<>> /\ ~validation_result[1].validation_successful) =>
       /\ pc \in FailurePath => raised_at = "PostProcessing"
       /\ pc \in Terminal /\ lro.st # "raised:ActivityError" => pc = "Completed"

\* C18 witness: a run with one degraded batch (a validation violation) and
\* one partly successful batch has completed.
C18_Witness ==
  /\ pc = "Completed"
  /\ ~validation_result[1].validation_successful
  /\ output[1].successful_items > 0
  /\ output[1].failed_items > 0
  /\ activity_failed # {}

(***************************************************************************)
(* Properties of webhook delivery (checked under SpecHook).                *)
(***************************************************************************)
\* Positions of the responses with a success status.
SuccessResponses ==
  {k \in DOMAIN act.responses :
     act.responses[k].kind = "response" /\ act.responses[k].status < 400}

\* C19: webhook delivery makes at most max_attempts POSTs (3 when the event
\* carries no retry policy), stops at the first response with a status
\* below 400 and returns success = true for it, and the attempts value it
\* reports is the number of POSTs actually made.
C19_WebhookAttemptsBounded ==
  /\ act.posts = Len(act.responses)
  /\ act.retry_policy # <<>> => act.posts <= act.retry_policy[1].max_attempts
  /\ act.retry_policy = <<>> => act.posts <= 3
  /\ \A k \in SuccessResponses :
       /\ k = Len(act.responses)
       /\ act.pc = "returned"
       /\ act.delivery[1].success
       /\ act.result[1].delivery_status = "success"
  /\ (act.pc = "returned" /\ act.delivery # <<>> /\ act.delivery[1].success) =>
       SuccessResponses # {}
  /\ act.pc = "returned" =>
       /\ act.result[1].attempts = act.posts
       /\ act.delivery # <<>> => act.delivery[1].attempts = act.posts

\* C19 witness: without a retry policy, two server errors were followed by
\* a redirect answer on the third POST, and delivery returned success with
\* attempts = 3.
C19_Witness ==
  /\ act.pc = "returned"
  /\ act.retry_policy = <<>>
  /\ act.posts = 3
  /\ act.responses[1].status = 500
  /\ act.responses[2].status = 500
  /\ act.responses[3].status = 302
  /\ act.delivery[1].success
  /\ act.result[1].attempts = 3

\* C20: against an endpoint that answers every attempt with 429 and a
\* Retry-After hint of r seconds, webhook delivery makes exactly
\* max_attempts attempts, consecutive attempts are at least r seconds
\* apart, and the final result has success = false.
C20_RateLimitedDelivery ==
  (act.endpoint.kind = "rate_limited" /\ act.pc = "returned") =>
    /\ act.posts = RetryConfig(act.retry_policy).max_attempts
    /\ \A k \in 1..(Len(act.post_times) - 1) :
         act.post_times[k + 1] - act.post_times[k]
           >= ParseInt(act.endpoint.retry_after)
    /\ act.delivery # <<>>
    /\ ~act.delivery[1].success
    /\ act.result[1].delivery_status = "failed"

C22_ClientErrorTerminal ==
  \A k \in DOMAIN act.responses :
    (/\ act.responses[k].kind = "response"
     /\ act.responses[k].status >= 400
     /\ act.responses[k].status < 500
     /\ act.responses[k].status # 429) =>
      /\ k = Len(act.responses)
      /\ act.posts = k
      /\ act.pc = "returned"
      /\ act.delivery = <<[success |-> FALSE, attempts |-> k]>>
      /\ act.result[1].delivery_status = "failed"
      /\ Len(act.waits) = k - 1
      /\ act.wait = 0

\* C22 witness: the second attempt, made after a server error, was answered
\* with 404 while a third attempt was still allowed.
C22_Witness ==
  /\ Len(act.responses) = 2
  /\ act.responses[1].status = 500
  /\ act.responses[2].status = 404
  /\ RetryConfig(act.retry_policy).max_attempts = 3
  /\ act.pc = "returned"
  /\ act.delivery[1].attempts = 2

\* C23: after a 5xx response or a network fault at attempt k, if attempts
\* remain the delivery waits exactly
\* min(initial_delay * backoff_multiplier^(k-1), max_delay) seconds and then
\* makes attempt k+1, no earlier than that wait after attempt k; after the
\* last attempt it returns success = false with attempts = max_attempts
\* and without a further wait.
C23_BackoffBetweenAttempts ==
  LET cfg == RetryConfig(act.retry_policy)
  IN \A k \in DOMAIN act.responses :
       (\/ act.responses[k].kind = "network_error"
        \/ act.responses[k].kind = "response"
             /\ act.responses[k].status >= 500) =>
         IF k < cfg.max_attempts
           THEN /\ Len(act.waits) >= k
                /\ act.waits[k] =
                     Min(cfg.initial_delay * Pow(cfg.backoff_multiplier, k - 1),
                         cfg.max_delay)
                /\ \/ k = Len(act.responses) /\ act.pc = "sleeping"
                        /\ act.wait = act.waits[k]
                   \/ k = Len(act.responses) /\ act.pc = "ready"
                        /\ act.attempt = k + 1
                   \/ /\ k < Len(act.responses)
                      /\ act.post_times[k + 1]
                           >= act.post_times[k] + act.waits[k]
           ELSE /\ k = cfg.max_attempts
                /\ k = Len(act.responses)
                /\ act.pc = "returned"
                /\ act.delivery = <<[success |-> FALSE,
                                     attempts |-> cfg.max_attempts]>>
                /\ Len(act.waits) = k - 1
                /\ act.wait = 0

\* C23 witness: a network fault, then two server errors exhausted a policy
\* of three attempts whose second backoff was clamped at max_delay.
C23_Witness ==
  /\ act.pc = "returned"
  /\ act.retry_policy # <<>>
  /\ Len(act.responses) = 3
  /\ act.responses[1].kind = "network_error"
  /\ act.responses[2].status = 500
  /\ act.responses[3].status = 500
  /\ act.waits = <<act.retry_policy[1].initial_delay,
                   act.retry_policy[1].max_delay>>
  /\ act.retry_policy[1].initial_delay * act.retry_policy[1].backoff_multiplier
       > act.retry_policy[1].max_delay
  /\ ~act.delivery[1].success

C25_BatchAccounting ==
  (act.pc = "returned" /\ act.exception = "none") =>
    LET total == act.input.total_work_units
        per == IF act.input.work_unit_size < 1000
                 THEN act.input.work_unit_size ELSE 1000
        units(f) == [k \in DOMAIN act.batches |->
                       IF act.batches[k].faulted = f
                         THEN act.batches[k].units ELSE 0]
    IN /\ Len(act.batches) * per >= total
       /\ (Len(act.batches) - 1) * per < total
       /\ (total = 10000 /\ per = 1000) => Len(act.batches) = 10
       /\ act.output[1].failed_work_units = SumSeq(units(TRUE))
       /\ act.output[1].completed_work_units = SumSeq(units(FALSE))
       /\ act.output[1].completed_work_units
            + act.output[1].failed_work_units = total

\* C26: when the batch loop has finished, the final status is completed
\* if no unit failed, failed if units failed and none completed, and
\* completed (partial success) in every other case.
C26_FinalStatus ==
  (act.pc = "returned" /\ act.exception = "none") =>
    LET out == act.output[1]
    IN /\ out.completed_work_units = act.completed_units
       /\ out.failed_work_units = act.failed_units
       /\ out.failed_work_units = 0 => out.status = "completed"
       /\ (out.failed_work_units > 0 /\ out.completed_work_units = 0) =>
            out.status = "failed"
       /\ (out.failed_work_units > 0 /\ out.completed_work_units > 0) =>
            out.status = "completed"

\* C26 witness: a run with a faulted batch and a completed batch has
\* returned with status completed.
C26_Witness ==
  /\ act.pc = "returned"
  /\ act.exception = "none"
  /\ act.output[1].failed_work_units > 0
  /\ act.output[1].completed_work_units > 0
  /\ act.output[1].status = "completed"

C28_ProgressConsistent ==
  /\ act.exception # "ValidationError"
  /\ \A k \in DOMAIN act.progress_history :
       LET u == act.progress_history[k]
           done == [b \in 1..u.current_stage |->
                      IF act.batches[b].faulted THEN 0
                                                ELSE act.batches[b].units]
           off == u.progress_percentage * u.total_work_units
                    - 100000 * u.completed_work_units
       IN /\ u.current_stage <= Len(act.batches)
          /\ u.completed_work_units = SumSeq(done)
          /\ u.total_work_units = act.input.total_work_units
          /\ off < 100 * u.total_work_units
          /\ off > -100 * u.total_work_units
          /\ u.progress_percentage >= 0
          /\ u.progress_percentage <= 100000

\* C28 witness: an update emitted after a completed first batch of a
\* three-unit dataset reports 33.333 percent.
C28_Witness ==
  /\ Len(act.progress_history) >= 1
  /\ act.progress_history[1].total_work_units = 3
  /\ act.progress_history[1].completed_work_units = 1
  /\ act.progress_history[1].progress_percentage = 33333

(***************************************************************************)
(* Properties of process_single_item (checked under SpecItem).             *)
(***************************************************************************)
\* C29: process_single_item never raises for an ordinary data error in the
\* item (content that cannot be encoded, a size whose processing time
\* exceeds the timeout): it returns a result with status failed or
\* timeout, and raises only for infrastructure faults.
C29_DataErrorsReturned ==
  /\ act.cause \in {"UnicodeEncodeError", "ActivityTimeoutError"} =>
       /\ act.pc = "returned"
       /\ act.result[1].status \in {"failed", "timeout"}
  /\ act.pc = "raised" =>
       act.cause \in {"activity.info", "activity.heartbeat"}

(***************************************************************************)
(* Terminal notifications of a run (checked under Spec).                   *)
(***************************************************************************)
\* C30: with a notification endpoint configured, a run dispatches exactly
\* one terminal notification: workflow_completed on the success path,
\* workflow_failed on the failure path, never both; without an endpoint it
\* dispatches none.
C30_OneTerminalNotification ==
  LET webhooks == {k \in DOMAIN dispatched :
                     dispatched[k].activity = "send_webhook_notification"}
      completed == {k \in webhooks : unit["notify_completed"] # "none"
                                       /\ unit["notify_failed"] = "none"}
      failed == {k \in webhooks : unit["notify_failed"] # "none"
                                    /\ unit["notify_completed"] = "none"}
  IN /\ Cardinality(webhooks) <= 1
     /\ webhooks = completed \cup failed
     /\ workflow_input.notification_webhook = NoWebhook =>
          /\ webhooks = {}
          /\ unit["notify_completed"] = "none"
          /\ unit["notify_failed"] = "none"
     /\ workflow_input.notification_webhook # NoWebhook =>
          /\ pc = "Completed" =>
               /\ Cardinality(completed) = 1
               /\ \A k \in completed :
                    dispatched[k].arg = "workflow_completed"
          /\ pc = "Failed" =>
               /\ Cardinality(failed) = 1
               /\ \A k \in failed : dispatched[k].arg[1] = "workflow_failed"
          /\ completed # {} => pc \notin FailurePath
          /\ failed # {} => pc \in FailurePath

\* C30 witness: a run with an endpoint completed after its monitoring unit
\* had failed, having dispatched workflow_completed only.
C30_Witness ==
  /\ pc = "Completed"
  /\ workflow_input.notification_webhook # NoWebhook
  /\ IsRaised(unit["monitor"])
  /\ unit["notify_completed"] # "none"
  /\ unit["notify_failed"] = "none"
  /\ Cardinality({k \in DOMAIN dispatched :
                    dispatched[k].activity = "send_webhook_notification"}) = 1

\* A failed run with an endpoint dispatched workflow_failed only.
C30_FailedRunNotified ==
  /\ pc = "Failed"
  /\ workflow_input.notification_webhook # NoWebhook
  /\ unit["notify_failed"] # "none"
  /\ unit["notify_completed"] = "none"

C32_FailedAtPostProcessing ==
  pc = "Failed" /\ raised_at = "PostProcessing"

\* C33: a failure of the monitoring unit is never propagated: awaiting it
\* always leads to the output stage and changes neither the batch results
\* nor the validation report, so the run returns status completed with the
\* statistics of its batch results whether monitoring succeeded or failed.
C33_MonitoringFailureSwallowed ==
  /\ [](/\ raised_at # "MetricsUpdated"
        /\ exc # ErrorOf("monitor")
        /\ (pc \in Terminal /\ IsRaised(unit["monitor"])) => pc = "Completed"
        /\ pc = "Completed" =>
             /\ output[1].status = "completed"
             /\ output[1].summary_statistics =
                  <<validate_processing_results(batch_results).statistics>>
             /\ output[1].successful_items =
                  SumSeq([k \in DOMAIN batch_results |->
                            batch_results[k].successful_items])
             /\ output[1].failed_items =
                  SumSeq([k \in DOMAIN batch_results |->
                            batch_results[k].failed_items]))
  /\ [][(pc = "MetricsUpdated" /\ pc' # pc) =>
          /\ pc' = "MonitoringReconciled"
          /\ unit'["monitor"] \in Outcomes("monitor")
          /\ batch_results' = batch_results
          /\ validation_result' = validation_result]_vars

\* C33 witness: a run without an endpoint whose monitoring unit raised has
\* returned a completed output that counts successful items.
C33_Witness ==
  /\ pc = "Completed"
  /\ IsRaised(unit["monitor"])
  /\ workflow_input.notification_webhook = NoWebhook
  /\ output[1].status = "completed"
  /\ output[1].successful_items > 0

\* A run whose monitoring unit returned has completed as well.
C33_MonitoringSucceeded ==
  /\ pc = "Completed"
  /\ unit["monitor"] \notin {"none", "scheduled"}
  /\ ~IsRaised(unit["monitor"])
  /\ workflow_input.notification_webhook = NoWebhook

\* C34: process_large_dataset emits a heartbeat only at the end of an
\* internal batch, at most one per batch, and it does so exactly when
\* enable_heartbeat is true and the time since the previous heartbeat (or
\* since the start) is at least heartbeat_interval_seconds; with
\* enable_heartbeat false no heartbeat is emitted.
C34_HeartbeatAtBoundary ==
  /\ [](/\ act.last_heartbeat <= act.clock
        /\ ~act.input.enable_heartbeat =>
             /\ act.last_heartbeat = 0
             /\ \A k \in DOMAIN act.batches : ~act.batches[k].heartbeat)
  /\ [][IF Len(act'.batches) = Len(act.batches) + 1
          THEN LET emitted == act'.batches[Len(act'.batches)].heartbeat
               IN /\ emitted <=>
                       /\ act.input.enable_heartbeat
                       /\ act'.clock - act.last_heartbeat
                            >= act.input.heartbeat_interval_seconds
                  /\ (emitted /\ act'.exception # "heartbeat") =>
                       act'.last_heartbeat = act'.clock
                  /\ ~emitted => act'.last_heartbeat = act.last_heartbeat
          ELSE /\ act'.batches = act.batches
               /\ act'.last_heartbeat = act.last_heartbeat
               /\ act'.clock = act.clock]_vars

\* C34 witness: with an interval of two seconds and batches of one second,
\* the first batch ended without a heartbeat and the second with one.
C34_Witness ==
  /\ Len(act.batches) = 2
  /\ act.input.enable_heartbeat
  /\ act.input.heartbeat_interval_seconds = 2
  /\ act.clock = 2
  /\ ~act.batches[1].heartbeat
  /\ act.batches[2].heartbeat
  /\ act.last_heartbeat = 2

\* A run with heartbeats disabled went through two batches of two seconds.
C34_DisabledWitness ==
  /\ Len(act.batches) = 2
  /\ ~act.input.enable_heartbeat
  /\ act.clock = 4

(***************************************************************************)
(* The outputs of DataProcessingOrchestrator.run (checked under Spec).     *)
(***************************************************************************)
\* C35: the output of the success path is consistent: total_batches is
\* the number of input batches, successful_batches + failed_batches =
\* total_batches where a batch is successful exactly when all its items
\* succeeded, successful_items + failed_items = total_items, and
\* total_items is the sum of the batch_size of the input batches.
C35_SuccessOutputConsistent ==
  pc = "Completed" =>
    LET out == output[1]
        allSucceeded ==
          {i \in Batches : ResultOf(i).successful_items
                             = workflow_input.batches[i].batch_size}
    IN /\ out.total_batches = NumBatches
       /\ out.successful_batches = Cardinality(allSucceeded)
       /\ out.failed_batches = NumBatches - Cardinality(allSucceeded)
       /\ out.successful_batches + out.failed_batches = out.total_batches
       /\ out.successful_items + out.failed_items = out.total_items
       /\ out.total_items =
            SumSeq([i \in Batches |-> workflow_input.batches[i].batch_size])
       /\ Len(out.batch_results) = NumBatches

\* C35 witness: a completed run of two batches, one with every item
\* successful and one degraded, whose output counts one batch of each kind.
C35_Witness ==
  /\ pc = "Completed"
  /\ NumBatches = 2
  /\ Cardinality(activity_failed) = 1
  /\ output[1].successful_batches = 1
  /\ output[1].failed_batches = 1
  /\ output[1].successful_items > 0

\* C36: the output of the failure path is computed from the input alone:
\* failed_batches is the number of input batches and failed_items the
\* total number of input items, with no successes, whatever had completed;
\* when the failure occurred during batch execution the output's
\* batch_results is empty and the failure notification reports
\* completed_batches = 0.
C36_FailedOutputFromInput ==
  pc = "Failed" =>
    LET out == output[1]
        failures == {k \in DOMAIN dispatched :
                       dispatched[k].activity = "send_webhook_notification"}
    IN /\ out.status = "failed"
       /\ out.total_batches = NumBatches
       /\ out.failed_batches = NumBatches
       /\ out.successful_batches = 0
       /\ out.total_items = TotalInputItems
       /\ out.failed_items = TotalInputItems
       /\ out.successful_items = 0
       /\ raised_at = "BatchesExecuting" =>
            /\ out.batch_results = <<>>
            /\ \A k \in failures : dispatched[k].arg[2] = 0
       /\ raised_at # "BatchesExecuting" =>
            /\ Len(out.batch_results) = NumBatches
            /\ \A k \in failures : dispatched[k].arg[2] = NumBatches

\* C36 witness: a sequential run with an endpoint failed in its second
\* batch after the first had returned a result with successful items.
C36_Witness ==
  /\ pc = "Failed"
  /\ raised_at = "BatchesExecuting"
  /\ SequentialMode
  /\ Len(local_results) = 1
  /\ local_results[1].successful_items > 0
  /\ HasWebhook
  /\ unit["notify_failed"] # "none"
  /\ output[1].batch_results = <<>>
  /\ output[1].failed_items > local_results[1].failed_items

\* C37: whenever a batch produced a degraded result, the validator
\* reports an item-count mismatch for that batch, validation_successful is
\* false, the run still returns status completed, and the batch is counted
\* in failed_batches.
C37_DegradedBatchReported ==
  \A i \in activity_failed :
    /\ HasResult(i) =>
         /\ ResultOf(i).item_results = <<>>
         /\ ResultOf(i).total_items = workflow_input.batches[i].batch_size
         /\ ResultOf(i).failed_items = ResultOf(i).total_items
    /\ validation_result # <<>> =>
         /\ ~validation_result[1].validation_successful
         /\ \E e \in DOMAIN validation_result[1].validation_errors :
              validation_result[1].validation_errors[e]
                = <<ResultOf(i).batch_id, "item count mismatch">>
         /\ pc \in FailurePath => raised_at = "PostProcessing"
    /\ pc = "Completed" =>
         /\ output[1].status = "completed"
         /\ output[1].failed_batches >= Cardinality(activity_failed)
         /\ output[1].batch_results[i].successful_items
              < output[1].batch_results[i].total_items
         /\ output[1].failed_items >= workflow_input.batches[i].batch_size

\* C37 witness: a completed run in which every one of the two batches was
\* degraded: two mismatches reported, both batches counted as failed.
C37_Witness ==
  /\ pc = "Completed"
  /\ NumBatches = 2
  /\ activity_failed = Batches
  /\ Len(validation_result[1].validation_errors) = 2
  /\ output[1].failed_batches = 2
  /\ output[1].status = "completed"

(***************************************************************************)
(* Progress of process_large_dataset (checked under SpecLro).              *)
(***************************************************************************)
\* C39: in process_large_dataset completed_work_units never exceeds
\* total_work_units, in the running count, in every progress update and in
\* the output, and the completed_work_units of successive entries of
\* progress_history never decrease.
C39_CompletedBoundedMonotone ==
  /\ act.completed_units >= 0
  /\ act.completed_units <= act.input.total_work_units
  /\ act.output # <<>> =>
       /\ act.output[1].completed_work_units <= act.input.total_work_units
       /\ act.output[1].completed_work_units = act.completed_units
  /\ \A k \in DOMAIN act.progress_history :
       /\ act.progress_history[k].completed_work_units
            <= act.progress_history[k].total_work_units
       /\ act.progress_history[k].completed_work_units <= act.completed_units
       /\ k > 1 => act.progress_history[k - 1].completed_work_units
                     <= act.progress_history[k].completed_work_units

\* C39 witness: three progress updates, the count rising from the first to
\* the second and staying the same over a faulted third batch.
C39_Witness ==
  /\ act.pc = "returned"
  /\ act.exception = "none"
  /\ Len(act.progress_history) = 3
  /\ act.progress_history[1].completed_work_units
       < act.progress_history[2].completed_work_units
  /\ act.progress_history[2].completed_work_units
       = act.progress_history[3].completed_work_units
  /\ act.batches[3].faulted
  /\ act.output[1].completed_work_units
       = act.progress_history[3].completed_work_units

(***************************************************************************)
(* Choice of the batch executor (checked under Spec).                      *)
(***************************************************************************)
\* C40: the executor a batch sub-unit schedules is chosen by the batch's
\* processing_mode alone, never by the orchestrator's sequential_mode:
\* process_batch_sequential exactly when processing_mode is sequential,
\* process_batch_parallel when it is parallel or batch.
C40_ExecutorByProcessingMode ==
  \A i \in Batches :
    LET mode == workflow_input.batches[i].processing_mode
    IN /\ child[i] \in {"idle", "pending"} => executor[i] = "none"
       /\ child[i] \in {"running", "done", "failed"} =>
            /\ executor[i] \in {"process_batch_sequential",
                                "process_batch_parallel"}
            /\ executor[i] = "process_batch_sequential" <=> mode = "sequential"
            /\ mode \in {"parallel", "batch"} =>
                 executor[i] = "process_batch_parallel"

\* C40 witness: an orchestrator in sequential mode has started a batch of
\* mode batch, which scheduled process_batch_parallel, after a batch of
\* mode sequential, which had scheduled process_batch_sequential.
C40_Witness ==
  /\ workflow_input.processing_config.sequential_mode
  /\ NumBatches = 2
  /\ workflow_input.batches[1].processing_mode = "sequential"
  /\ workflow_input.batches[2].processing_mode = "batch"
  /\ executor[1] = "process_batch_sequential"
  /\ executor[2] = "process_batch_parallel"

\* An orchestrator in parallel mode with a batch of mode sequential that
\* scheduled process_batch_sequential and one of mode parallel.
C40_ParallelOrchestrator ==
  /\ ~workflow_input.processing_config.sequential_mode
  /\ NumBatches = 2
  /\ workflow_input.batches[1].processing_mode = "parallel"
  /\ workflow_input.batches[2].processing_mode = "sequential"
  /\ executor[1] = "process_batch_parallel"
  /\ executor[2] = "process_batch_sequential"

C38_RaisedWithWaiter ==
  /\ act.pc = "raised"
  /\ act.permits = 1
  /\ act.task = <<"failed", "running", "waiting">>

====
